---- MODULE Spec2Model ----
(***************************************************************************)
(* A model of the Smart Image Renamer plugin: the image-link grammar and   *)
(* caption rewriter, the link-removal tracker, and the paste / drop /      *)
(* create handlers running against the host vault.                         *)
(*                                                                         *)
(* Text is a sequence of one-character strings; offsets are 0-based as in  *)
(* JavaScript (start = match.index, end = start + match[0].length).        *)
(***************************************************************************)
EXTENDS Integers, Sequences, FiniteSets, TLC

VARIABLES
    \* ---- caption editing (CaptionService on one document's text) ----
    content,          \* the document text
    before,           \* the text the last caption operation was applied to
    capOp,            \* the last operation: [kind, target, caption]
    typed,            \* number of segments typed into the document
    edits,            \* number of caption operations applied so far
    built,            \* the last buildImageLink call: its arguments and result
    \* ---- link-removal tracker (LinkTrackerService) ----
    cache,            \* notePath -> set of link paths, or NoCache
    noteLinks,        \* notePath -> the links the editor text is made of
    synced,           \* notePath -> the cache entry was computed from that text
    removed,          \* result of the last detectRemovedLinks call
    trackOp,          \* record describing the last tracker operation
    opened,           \* notes open in a markdown view
    \* ---- plugin handlers and host vault ----
    settings,         \* [suffixMode, attachmentFolder, activeNote]
    filePath,         \* TFile id -> current path, or NoFile
    origin,           \* TFile id -> "none" | "paste" | "external"
    folders,          \* folder paths in the vault index
    mkdirPending,     \* folder paths being created, not yet indexed
    clock,            \* seconds elapsed on the wall clock
    ins,              \* paste/drop handler -> its local state
    fc,               \* TFile id -> state of handleFileCreate for that file
    createEvents,     \* TFile ids whose vault 'create' event is undelivered
    processingFiles,  \* SmartImageRenamer.processingFiles
    expiryTimers,     \* names with a pending 1000 ms processingFiles.delete
    forceRenameNext,  \* SmartImageRenamer.forceRenameNext
    forceTimers,      \* number of pending 5000 ms forceRenameNext resets
    notices,          \* user-visible notices shown so far
    \* ---- delete prompts and the orphaned-images dialog ----
    imgState,         \* image -> "present" | "trashed" | "moved"
    modal,            \* image -> its DeleteImageModal: [open, timer]
    orphans,          \* OrphanedImagesModal: [open, listed, selected, confirmOpen]
    confirmed,        \* images whose trash or move the user confirmed by a button
    promptOp,         \* the last prompt event: [kind, img]
    \* ---- bulk rename (BulkRenameService planner and executor) ----
    bulkFiles,        \* TFile id -> [basename, extension] of the vault's images
    scanned,          \* the ImageInfo list of the last scan
    plan,             \* the preview items, with the user's selection
    produced,         \* the items as the last generatePreview run returned them
    prevProduced,     \* the items the run before that returned
    lastUsedNames,    \* the usedNames map at the end of the last run
    planOp,           \* the last planner run: [repeat, input]
    execOp,           \* the executeBulkRename call: [done, items, failing, result, before]
    \* ---- orphan scan (BulkRenameService.findOrphanedImages) ----
    docEmbeds,        \* document -> the links its metadata cache lists as embeds
    scanOp,           \* the last findOrphanedImages call: [done, orphaned]
    \* ---- the document pastes and drops insert into ----
    insertedLinks,    \* the links inserted so far: [handler, link]
    \* ---- sanitizeFilename called on a name ----
    sanIn,            \* the name
    sanOut,           \* the last call on it: [done, aggressive, value]
    \* ---- caption modal and the debounced editor-change handler ----
    deletePromptBehavior, \* settings.deletePromptBehavior
    isEditingCaption, \* SmartImageRenamer.isEditingCaption
    captionTimers,    \* number of pending 100 ms isEditingCaption resets
    onSaves,          \* onSave calls awaiting vault.modify: [image, newLinks, written]
    debounceTimeout,  \* the debounce wrapper's timeout is pending
    deletePrompts     \* images the handler's last run called openDeleteModal for

capVars   == <<content, before, capOp, typed, edits, built>>
trackVars == <<cache, noteLinks, synced, removed, trackOp, opened>>
plugVars  == <<settings, filePath, origin, folders, mkdirPending, clock, ins, fc,
               createEvents, processingFiles, expiryTimers, forceRenameNext,
               forceTimers, notices>>
promptVars == <<imgState, modal, orphans, confirmed, promptOp>>
bulkVars   == <<bulkFiles, scanned, plan, produced, prevProduced, lastUsedNames,
                planOp, execOp>>
editVars   == <<deletePromptBehavior, isEditingCaption, captionTimers, onSaves,
                debounceTimeout, deletePrompts>>
extraVars  == <<docEmbeds, scanOp, insertedLinks, sanIn, sanOut, editVars>>
dialogVars == <<promptVars, bulkVars, extraVars>>
vars      == <<capVars, trackVars, plugVars, dialogVars>>

----------------------------------------------------------------------------
(* Bounds of the model. *)

MaxSegs   == 2    \* segments typed into the caption-edited document
MaxEdits  == 1    \* caption operations per behaviour
MaxLinks  == 2    \* links per tracked note
MaxInserts == 2   \* paste / drop handler invocations
MaxExternal == 1  \* image files created by other programs
MaxClock  == 1    \* seconds the wall clock advances
MaxImages == 2    \* image files the prompts are about
MaxBatch  == 2    \* images in one bulk-rename scan
MaxName   == 3    \* characters of a name drawn for sanitizeFilename

----------------------------------------------------------------------------
(* Strings. *)

Min(S) == CHOOSE x \in S : \A y \in S : x <= y
Max(S) == CHOOSE x \in S : \A y \in S : x >= y

DigitChars == <<"0", "1", "2", "3", "4", "5", "6", "7", "8", "9">>
IsDigit(c) == \E i \in 1..10 : DigitChars[i] = c

UpperChars == <<"A","B","C","D","E","F","G","H","I","J","K","L","M",
                "N","O","P","Q","R","S","T","U","V","W","X","Y","Z">>
LowerChars == <<"a","b","c","d","e","f","g","h","i","j","k","l","m",
                "n","o","p","q","r","s","t","u","v","w","x","y","z">>

\* String.prototype.toLowerCase, one character
LowerChar(c) ==
    IF \E i \in 1..26 : UpperChars[i] = c
    THEN LowerChars[CHOOSE i \in 1..26 : UpperChars[i] = c]
    ELSE c

toLowerCase(s) == [i \in 1..Len(s) |-> LowerChar(s[i])]

\* \s of a JavaScript regular expression (the characters the model draws)
IsSpace(c) == c \in {" ", "\t", "\n"}

\* Number -> decimal string, as `${n}` renders it
RECURSIVE NatToStr(_)
NatToStr(n) ==
    IF n < 10 THEN <<DigitChars[n + 1]>>
    ELSE NatToStr(n \div 10) \o <<DigitChars[(n % 10) + 1]>>

\* String.prototype.slice(from, to) with 0-based, end-exclusive offsets
Slice(s, from, to) == SubSeq(s, from + 1, to)
SliceFrom(s, from) == SubSeq(s, from + 1, Len(s))

\* s.startsWith(lit, at) with a 0-based offset
StartsWithAt(s, lit, at) ==
    /\ at + Len(lit) <= Len(s)
    /\ \A i \in 1..Len(lit) : s[at + i] = lit[i]

EndsWith(s, lit) ==
    /\ Len(lit) <= Len(s)
    /\ \A i \in 1..Len(lit) : s[Len(s) - Len(lit) + i] = lit[i]

\* s.lastIndexOf(c): 0-based, -1 when absent
LastIndexOf(s, c) ==
    LET hits == {i \in 1..Len(s) : s[i] = c}
    IN  IF hits = {} THEN -1 ELSE Max(hits) - 1

\* s.indexOf(lit): 0-based, -1 when absent
IndexOf(s, lit) ==
    LET hits == {i \in 0..Len(s) : StartsWithAt(s, lit, i)}
    IN  IF hits = {} THEN -1 ELSE Min(hits)

\* s.replace(lit, by): the first occurrence only
ReplaceFirst(s, lit, by) ==
    LET at == IndexOf(s, lit)
    IN  IF at < 0 THEN s
        ELSE Slice(s, 0, at) \o by \o SliceFrom(s, at + Len(lit))

\* s.split('/').pop()
LastSegment(s) == SliceFrom(s, LastIndexOf(s, "/") + 1)

\* The end (1-based index of the first character not consumed, Len+1 at the
\* end of the text) of the maximal run starting at 1-based index j of
\* characters that are not in Stop: a negated character class [^...]* .
RunEnd(s, j, Stop) ==
    CHOOSE k \in j..(Len(s) + 1) :
        /\ k = Len(s) + 1 \/ s[k] \in Stop
        /\ \A m \in j..(k - 1) : s[m] \notin Stop

\* The same for a positive class given as a predicate on characters.
DigitRunEnd(s, j) ==
    CHOOSE k \in j..(Len(s) + 1) :
        /\ k = Len(s) + 1 \/ ~IsDigit(s[k])
        /\ \A m \in j..(k - 1) : IsDigit(s[m])
SpaceRunEnd(s, j) ==
    CHOOSE k \in j..(Len(s) + 1) :
        /\ k = Len(s) + 1 \/ ~IsSpace(s[k])
        /\ \A m \in j..(k - 1) : IsSpace(s[m])

----------------------------------------------------------------------------
(* Constants of src/utils/constants.ts *)

IMAGE_EXTENSIONS ==
    { <<"p","n","g">>, <<"j","p","g">>, <<"j","p","e","g">>, <<"g","i","f">>,
      <<"w","e","b","p">>, <<"b","m","p">>, <<"s","v","g">>, <<"a","v","i","f">>,
      <<"t","i","f","f">>, <<"t","i","f">>, <<"i","c","o">> }

\* The tail  [class]+\.(?:png|jpg|...|tiff?|ico)  of group 1 of both image
\* grammars, case-insensitive (flag i), applied to a whole run of the class:
\* at least one character, a dot, then a recognised extension.
EndsWithImageExt(run) ==
    \E e \in IMAGE_EXTENSIONS :
        /\ Len(run) >= Len(e) + 2
        /\ run[Len(run) - Len(e)] = "."
        /\ toLowerCase(SliceFrom(run, Len(run) - Len(e))) = e

----------------------------------------------------------------------------
(* The image-link grammars.  null and "" are both falsy and the code tests *)
(* captions and sizes for truthiness only (match[2] || null, if (caption), *)
(* caption || ''), so an absent caption or size is the empty text.         *)

Null == <<>>
NoLink == [ok |-> FALSE]

ImageLink(s, kind, i, endAt, path, cap, size) ==
    [ok |-> TRUE,
     fullMatch |-> Slice(s, i, endAt),
     filePath |-> path,
     caption |-> cap,
     size |-> size,
     type |-> kind,
     start |-> i,
     end |-> endAt]

\* One attempt of the embed grammar at 0-based offset i:
\*   !\[\[([^\]|]+\.(?:ext))(?:\|([^|\]]*?))?(?:\|(\d+))?\]\]      (needExt)
\*   !\[\[([^\]|]+?)(?:\|([^|\]]*?))?(?:\|(\d+))?\]\]             (no extension)
\* Group 1 and the caption are runs of a negated class and what follows each
\* is outside the class, so each is the whole run.
WikiMatchAt(s, i, needExt) ==
    IF ~StartsWithAt(s, <<"!", "[", "[">>, i) THEN NoLink
    ELSE
      LET p1   == i + 4
          p    == RunEnd(s, p1, {"]", "|"})
          path == SubSeq(s, p1, p - 1)
      IN
      IF path = <<>> \/ p > Len(s) \/ (needExt /\ ~EndsWithImageExt(path)) THEN NoLink
      ELSE IF s[p] = "]" THEN
        IF p + 1 <= Len(s) /\ s[p + 1] = "]"
        THEN ImageLink(s, "wiki", i, p + 1, path, Null, Null)
        ELSE NoLink
      ELSE
        LET q   == RunEnd(s, p + 1, {"|", "]"})
            cap == SubSeq(s, p + 1, q - 1)
        IN
        IF q > Len(s) THEN NoLink
        ELSE IF s[q] = "]" THEN
          IF q + 1 <= Len(s) /\ s[q + 1] = "]"
          THEN ImageLink(s, "wiki", i, q + 1, path, cap, Null)
          ELSE NoLink
        ELSE
          LET d    == DigitRunEnd(s, q + 1)
              size == SubSeq(s, q + 1, d - 1)
          IN
          IF size # <<>> /\ d + 1 <= Len(s) /\ s[d] = "]" /\ s[d + 1] = "]"
          THEN ImageLink(s, "wiki", i, d + 1, path, cap, size)
          ELSE NoLink

\* One attempt of the inline grammar at 0-based offset i:
\*   !\[([^\]]*)\]\(([^)\s]+\.(?:ext))(?:\s+"[^"]*")?\)
MarkdownMatchAt(s, i) ==
    IF ~StartsWithAt(s, <<"!", "[">>, i) THEN NoLink
    ELSE
      LET c1  == i + 3
          r   == RunEnd(s, c1, {"]"})
          cap == SubSeq(s, c1, r - 1)
      IN
      IF r + 1 > Len(s) \/ s[r + 1] # "(" THEN NoLink
      ELSE
        LET p1   == r + 2
            p    == RunEnd(s, p1, {")", " ", "\t", "\n"})
            path == SubSeq(s, p1, p - 1)
        IN
        IF p > Len(s) \/ ~EndsWithImageExt(path) THEN NoLink
        ELSE IF s[p] = ")" THEN ImageLink(s, "markdown", i, p, path, cap, Null)
        ELSE
          LET w == SpaceRunEnd(s, p)
          IN
          IF w > Len(s) \/ s[w] # "\"" THEN NoLink
          ELSE
            LET t == RunEnd(s, w + 1, {"\""})
            IN
            IF t + 1 <= Len(s) /\ s[t + 1] = ")"
            THEN ImageLink(s, "markdown", i, t + 1, path, cap, Null)
            ELSE NoLink

\* The tracker's own grammars (link-tracker-service):
\*   /!\[\[([^\]]+)\]\]/gi   group 1 is everything up to the first ]
TrackerWikiMatchAt(s, i) ==
    IF ~StartsWithAt(s, <<"!", "[", "[">>, i) THEN NoLink
    ELSE
      LET p1   == i + 4
          p    == RunEnd(s, p1, {"]"})
          path == SubSeq(s, p1, p - 1)
      IN  IF path # <<>> /\ p + 1 <= Len(s) /\ s[p + 1] = "]"
          THEN ImageLink(s, "wiki", i, p + 1, path, Null, Null)
          ELSE NoLink

\*   /!\[[^\]]*\]\(([^)]+)\)/gi
TrackerMarkdownMatchAt(s, i) ==
    IF ~StartsWithAt(s, <<"!", "[">>, i) THEN NoLink
    ELSE
      LET r == RunEnd(s, i + 3, {"]"})
      IN
      IF r + 1 > Len(s) \/ s[r + 1] # "(" THEN NoLink
      ELSE
        LET q    == RunEnd(s, r + 2, {")"})
            path == SubSeq(s, r + 2, q - 1)
        IN  IF path # <<>> /\ q <= Len(s)
            THEN ImageLink(s, "markdown", i, q, path, Null, Null)
            ELSE NoLink

MatchAt(s, i, grammar) ==
    CASE grammar = "wiki"          -> WikiMatchAt(s, i, TRUE)
      [] grammar = "wikiNoExt"     -> WikiMatchAt(s, i, FALSE)
      [] grammar = "markdown"      -> MarkdownMatchAt(s, i)
      [] grammar = "trackWiki"     -> TrackerWikiMatchAt(s, i)
      [] grammar = "trackMarkdown" -> TrackerMarkdownMatchAt(s, i)

\* while ((match = regex.exec(content)) !== null): every match of a global
\* regular expression, each search resuming at the end of the previous match.
RECURSIVE ExecAll(_, _, _)
ExecAll(s, from, grammar) ==
    IF from >= Len(s) THEN <<>>
    ELSE LET m == MatchAt(s, from, grammar)
         IN  IF m.ok THEN <<m>> \o ExecAll(s, m.end, grammar)
             ELSE ExecAll(s, from + 1, grammar)

\* links.sort((a, b) => a.start - b.start), a stable sort
RECURSIVE SortByStart(_)
SortByStart(links) ==
    IF links = <<>> THEN <<>>
    ELSE LET lo == Min({links[k].start : k \in 1..Len(links)})
             at == Min({k \in 1..Len(links) : links[k].start = lo})
         IN  <<links[at]>> \o
             SortByStart(SubSeq(links, 1, at - 1) \o SubSeq(links, at + 1, Len(links)))

parseImageLinks(text) ==
    SortByStart(ExecAll(text, 0, "wiki") \o ExecAll(text, 0, "markdown"))

parseAllWikiLinks(text) == ExecAll(text, 0, "wikiNoExt")

----------------------------------------------------------------------------
(* decodeURIComponent.  A percent sign must be followed by two hex digits; *)
(* a byte below 0x80 is its ASCII character.  A byte from 0x80 up starts a *)
(* multi-byte UTF-8 sequence: no text the model draws holds a well-formed  *)
(* one, and a malformed one throws URIError like a malformed escape.       *)

HexChars == <<"0", "1", "2", "3", "4", "5", "6", "7", "8", "9",
              "a", "b", "c", "d", "e", "f">>
IsHex(c) == \E i \in 1..16 : HexChars[i] = LowerChar(c)
HexVal(c) == (CHOOSE i \in 1..16 : HexChars[i] = LowerChar(c)) - 1

\* The printable ASCII characters, 0x20 to 0x7E (0x60, the grave accent, is
\* spelled out: the character cannot be written in a string here)
Ascii ==
    <<" ", "!", "\"", "#", "$", "%", "&", "'", "(", ")", "*", "+", ",", "-", ".", "/",
      "0", "1", "2", "3", "4", "5", "6", "7", "8", "9", ":", ";", "<", "=", ">", "?",
      "@", "A", "B", "C", "D", "E", "F", "G", "H", "I", "J", "K", "L", "M", "N", "O",
      "P", "Q", "R", "S", "T", "U", "V", "W", "X", "Y", "Z", "[", "\\", "]", "^", "_",
      "<grave>", "a", "b", "c", "d", "e", "f", "g", "h", "i", "j", "k", "l", "m", "n", "o",
      "p", "q", "r", "s", "t", "u", "v", "w", "x", "y", "z", "{", "|", "}", "~">>

ByteChar(b) ==
    IF b >= 32 /\ b <= 126 THEN Ascii[b - 31]
    ELSE IF b = 9 THEN "\t"
    ELSE IF b = 10 THEN "\n"
    ELSE "<ctl>"

RECURSIVE DecodeFrom(_, _)
DecodeFrom(s, j) ==
    IF j > Len(s) THEN [ok |-> TRUE, value |-> <<>>]
    ELSE IF s[j] # "%" THEN
      LET r == DecodeFrom(s, j + 1)
      IN  IF r.ok THEN [ok |-> TRUE, value |-> <<s[j]>> \o r.value] ELSE r
    ELSE IF j + 2 > Len(s) \/ ~IsHex(s[j + 1]) \/ ~IsHex(s[j + 2]) THEN
      [ok |-> FALSE, value |-> <<>>]
    ELSE
      LET b == 16 * HexVal(s[j + 1]) + HexVal(s[j + 2])
      IN  IF b >= 128 THEN [ok |-> FALSE, value |-> <<>>]
          ELSE LET r == DecodeFrom(s, j + 3)
               IN  IF r.ok THEN [ok |-> TRUE, value |-> <<ByteChar(b)>> \o r.value]
                   ELSE r

\* [ok |-> FALSE] stands for the URIError thrown
decodeURIComponent(s) == DecodeFrom(s, 1)

----------------------------------------------------------------------------
(* CaptionService *)

normalizePath(path) ==
    LET d       == decodeURIComponent(path)
        decoded == IF d.ok THEN d.value ELSE path
    IN  toLowerCase(LastSegment(decoded))

getBasename(path) ==
    LET filename == normalizePath(path)
        lastDot  == LastIndexOf(filename, ".")
    IN  IF lastDot > 0 THEN Slice(filename, 0, lastDot) ELSE filename

\* Array.prototype.find: the first element satisfying the test, or NoLink
FindLink(links, name) ==
    LET hits == {k \in 1..Len(links) : normalizePath(links[k].filePath) = name}
    IN  IF hits = {} THEN NoLink ELSE links[Min(hits)]

\* A search that returns whichever of the exact and the extension-less match
\* comes first in the text
findImageLinkLeftmost(text, imagePath) ==
    LET found    == FindLink(parseImageLinks(text), normalizePath(imagePath))
        fallback == IF getBasename(imagePath) # normalizePath(imagePath)
                    THEN FindLink(parseAllWikiLinks(text), getBasename(imagePath))
                    ELSE NoLink
    IN  IF found.ok /\ fallback.ok
        THEN (IF fallback.start < found.start THEN fallback ELSE found)
        ELSE IF found.ok THEN found ELSE fallback

findImageLink(text, imagePath) ==
    LET normalizedPath == normalizePath(imagePath)
        found          == FindLink(parseImageLinks(text), normalizedPath)
        basename       == getBasename(imagePath)
    IN  IF found.ok THEN found
        ELSE IF basename # normalizedPath
             THEN FindLink(parseAllWikiLinks(text), basename)
             ELSE NoLink

\* A builder that writes the size right after the path when there is no caption
buildImageLinkNoEmptyCaption(path, caption, size, type) ==
    IF type = "wiki" THEN
      <<"!", "[", "[">> \o path
        \o (IF caption # Null THEN <<"|">> \o caption ELSE <<>>)
        \o (IF size # Null THEN <<"|">> \o size ELSE <<>>)
        \o <<"]", "]">>
    ELSE
      <<"!", "[">> \o caption \o <<"]", "(">> \o path \o <<")">>

buildImageLink(path, caption, size, type) ==
    IF type = "wiki" THEN
      <<"!", "[", "[">> \o path
        \o (IF caption # Null THEN <<"|">> \o caption ELSE <<>>)
        \o (IF size # Null
            THEN (IF caption = Null THEN <<"|">> ELSE <<>>) \o <<"|">> \o size
            ELSE <<>>)
        \o <<"]", "]">>
    ELSE
      <<"!", "[">> \o caption \o <<"]", "(">> \o path \o <<")">>

\* A splice whose suffix starts one character after the link's end
SpliceLinkPastEnd(text, link, newLink) ==
    Slice(text, 0, link.start) \o newLink \o SliceFrom(text, link.end + 1)

\* content.slice(0, link.start) + newLink + content.slice(link.end)
SpliceLink(text, link, newLink) ==
    Slice(text, 0, link.start) \o newLink \o SliceFrom(text, link.end)

setCaption(text, imagePath, caption) ==
    LET link == findImageLink(text, imagePath)
    IN  IF ~link.ok THEN text
        ELSE SpliceLink(text, link,
                        buildImageLink(link.filePath, caption, link.size, link.type))

removeCaption(text, imagePath) ==
    LET link == findImageLink(text, imagePath)
    IN  IF ~link.ok THEN text
        ELSE SpliceLink(text, link,
                        buildImageLink(link.filePath, Null, link.size, link.type))

----------------------------------------------------------------------------
(* Caption editing: a document is typed segment by segment, then captions  *)
(* are set or removed on it; buildImageLink is called on its own.          *)

\* What the user types: links of both syntaxes, one inside other text, an
\* embed without extension, an opener that is never closed, and an embed
\* inside the caption slot of an unclosed one.
Segments ==
    {
      <<"x", " ", "!", "[", "[", "a", ".", "p", "n", "g", "]", "]", " ", "y", "]", "]">>,   \* x ![[a.png]] y]]
      <<"!", "[", "[", "a", ".", "p", "n", "g", "|", "c", "|", "5", "]", "]">>,   \* ![[a.png|c|5]]
      <<"!", "[", "[", "a", "|", "c", "]", "]">>,   \* ![[a|c]]
      <<"!", "[", "c", "]", "(", "d", "/", "B", ".", "p", "n", "g", " ", "\"", "t", "\"", ")">>,   \* ![c](d/B.png "t")
      <<"!", "[", "[", "b", ".", "p", "n", "g", "|", "|", "5", "]", "]">>,   \* ![[b.png||5]]
      <<"!", "[", "[">>,    \* ![[
      <<"!", "[", "[", "z", "|", "!", "[", "[", "a", "|", "c", "]", "]">>    \* ![[z|![[a|c]]
    }

\* imagePath arguments: present, present under another case, without
\* extension, and absent from every document
CaptionTargets ==
    {
      <<"a", ".", "p", "n", "g">>,   \* a.png
      <<"B", ".", "p", "n", "g">>,   \* B.png
      <<"a">>,   \* a
      <<"z", ".", "p", "n", "g">>    \* z.png
    }

\* New captions, one holding the delimiters of the grammars
NewCaptions ==
    {
      <<"n">>,   \* n
      <<"p", "|", "q", "]", "]">>    \* p|q]]
    }

BuildPaths ==
    {
      <<"a", ".", "p", "n", "g">>,   \* a.png
      <<"d", "/", "a", ".", "P", "N", "G">>,   \* d/a.PNG
      <<"a">>,   \* a
      <<".", "p", "n", "g">>,   \* .png
      <<"a", " ", "b", ".", "p", "n", "g">>,   \* a b.png
      <<"a", "|", "b", ".", "p", "n", "g">>,   \* a|b.png
      <<"a", "]", ".", "p", "n", "g">>,   \* a].png
      <<"a", ")", ".", "p", "n", "g">>    \* a).png
    }

BuildCaptions ==
    {
      <<>>,   \* (empty)
      <<"c">>,   \* c
      <<"5">>,   \* 5
      <<"a", "|", "b">>,   \* a|b
      <<"a", "]", "b">>,   \* a]b
      <<"c", " ", "d">>    \* c d
    }

BuildSizes ==
    {
      <<>>,   \* (empty)
      <<"5">>,   \* 5
      <<"x">>    \* x
    }

NoOp == [kind |-> "none", target |-> <<>>, caption |-> <<>>]
NoBuild == [ok |-> FALSE]

CapIdle ==
    /\ content = <<>>
    /\ before = <<>>
    /\ capOp = NoOp
    /\ typed = 0
    /\ edits = 0
    /\ built = NoBuild

\* The user types one more segment at the end of the document.
TypeSegment(seg) ==
    /\ edits = 0
    /\ typed < MaxSegs
    /\ content' = content \o seg
    /\ typed' = typed + 1
    /\ capOp' = [kind |-> "type", target |-> <<>>, caption |-> <<>>]
    /\ UNCHANGED <<before, edits, built, trackVars, plugVars, dialogVars>>

SetCaption(target, caption) ==
    /\ edits < MaxEdits
    /\ content' = setCaption(content, target, caption)
    /\ before' = content
    /\ capOp' = [kind |-> "set", target |-> target, caption |-> caption]
    /\ edits' = edits + 1
    /\ UNCHANGED <<typed, built, trackVars, plugVars, dialogVars>>

RemoveCaption(target) ==
    /\ edits < MaxEdits
    /\ content' = removeCaption(content, target)
    /\ before' = content
    /\ capOp' = [kind |-> "remove", target |-> target, caption |-> Null]
    /\ edits' = edits + 1
    /\ UNCHANGED <<typed, built, trackVars, plugVars, dialogVars>>

BuildImageLink(path, caption, size, type) ==
    /\ built' = [ok |-> TRUE, filePath |-> path, caption |-> caption,
                 size |-> size, type |-> type,
                 link |-> buildImageLink(path, caption, size, type)]
    /\ UNCHANGED <<content, before, capOp, typed, edits, trackVars, plugVars, dialogVars>>

----------------------------------------------------------------------------
(* LinkTrackerService *)

\* path.split('.').pop()?.toLowerCase() || '' is a recognised extension
isImagePath(path) ==
    toLowerCase(SliceFrom(path, LastIndexOf(path, ".") + 1)) \in IMAGE_EXTENSIONS

\* decodeURIComponent(match[1]) for each inline match, in order
decodeMatches(md) == [k \in 1..Len(md) |-> decodeURIComponent(md[k].filePath)]

\* The set filled by the two loops; [ok |-> FALSE] stands for the URIError
\* decodeURIComponent throws
collectLinks(wiki, decoded) ==
    IF \E k \in 1..Len(decoded) : ~decoded[k].ok
    THEN [ok |-> FALSE, links |-> {}]
    ELSE [ok |-> TRUE,
          links |->
            {wiki[k].filePath : k \in {j \in 1..Len(wiki) : isImagePath(wiki[j].filePath)}}
            \cup
            {decoded[k].value : k \in {j \in 1..Len(decoded) : isImagePath(decoded[j].value)}}]

extractImageLinks(text) ==
    collectLinks(ExecAll(text, 0, "trackWiki"),
                 decodeMatches(ExecAll(text, 0, "trackMarkdown")))

NoCache == [has |-> FALSE, links |-> {}]
Cached(links) == [has |-> TRUE, links |-> links]

\* this.cache.set(notePath, links), unless extractImageLinks threw
cacheSet(entry, links) ==
    IF links.ok THEN [threw |-> FALSE, entry |-> Cached(links.links)]
    ELSE [threw |-> TRUE, entry |-> entry]

\* updateCache: the entry after the call, and whether the call threw
updateCache(entry, text) == cacheSet(entry, extractImageLinks(text))

\* The removed list and the cache entry once newLinks is extracted
removedLinks(entry, newLinks) ==
    IF ~newLinks.ok THEN [threw |-> TRUE, removed |-> {}, entry |-> entry]
    ELSE [threw |-> FALSE,
          removed |-> IF ~entry.has THEN {}
                      ELSE {l \in entry.links : l \notin newLinks.links},
          entry |-> Cached(newLinks.links)]

\* detectRemovedLinks: the removed paths, the entry after the call, and
\* whether the call threw (then nothing is returned and the cache is as it was)
detectRemovedLinks(entry, text) == removedLinks(entry, extractImageLinks(text))

----------------------------------------------------------------------------
(* The tracked notes.  A note's text is its links, each written by         *)
(* buildImageLink, separated by a space; the user edits it one link at a   *)
(* time.                                                                   *)

Notes == {"n.md", "m.md"}

PathA  == <<"a", ".", "p", "n", "g">>
PathB  == <<"b", ".", "p", "n", "g">>
PathSp == <<"a", "%", "2", "0", "b", ".", "p", "n", "g">>    \* decodes to "a b.png"
PathBad == <<"a", "%", ".", "p", "n", "g">>      \* a malformed percent escape

NewLink(path, type) == [filePath |-> path, caption |-> Null, size |-> Null, type |-> type]

\* The links the user can insert in a note
LinkChoices(n) ==
    IF n = "n.md"
    THEN {NewLink(PathA, "wiki"), NewLink(PathB, "wiki"),
          NewLink(PathSp, "markdown"), NewLink(PathBad, "markdown")}
    ELSE {NewLink(PathA, "wiki")}

\* Links per note: the second note holds one link at most
LinkLimit(n) == IF n = "n.md" THEN MaxLinks ELSE 1

TrackCaptions == {Null, <<"c">>}

RECURSIVE Render(_)
Render(links) ==
    IF links = <<>> THEN <<>>
    ELSE buildImageLink(links[1].filePath, links[1].caption, links[1].size, links[1].type)
         \o (IF Len(links) > 1 THEN <<" ">> \o Render(Tail(links)) ELSE <<>>)

NoTrackOp ==
    [kind |-> "none", note |-> "n.md", edit |-> "none", path |-> <<>>,
     prev |-> NoCache, synced |-> FALSE, threw |-> FALSE]

TrackIdle ==
    /\ cache = [n \in Notes |-> NoCache]
    /\ noteLinks = [n \in Notes |-> <<>>]
    /\ synced = [n \in Notes |-> FALSE]
    /\ removed = {}
    /\ trackOp = NoTrackOp
    /\ opened = {}

\* active-leaf-change: linkTrackerService.updateCache(path, editor.getValue())
UpdateCache(n) ==
    \E r \in {updateCache(cache[n], Render(noteLinks[n]))} :
        /\ cache' = [cache EXCEPT ![n] = r.entry]
        /\ synced' = [synced EXCEPT ![n] = IF r.threw THEN @ ELSE TRUE]
        /\ trackOp' = [kind |-> "update", note |-> n, edit |-> "none", path |-> <<>>,
                       prev |-> cache[n], synced |-> synced[n], threw |-> r.threw]
        /\ UNCHANGED <<noteLinks, removed, opened, capVars, plugVars, dialogVars>>

ClearCache(n) ==
    /\ cache' = [cache EXCEPT ![n] = NoCache]
    /\ synced' = [synced EXCEPT ![n] = FALSE]
    /\ trackOp' = [kind |-> "clear", note |-> n, edit |-> "none", path |-> <<>>,
                   prev |-> cache[n], synced |-> synced[n], threw |-> FALSE]
    /\ UNCHANGED <<noteLinks, removed, opened, capVars, plugVars, dialogVars>>

\* The user's edit turns note n into newLinks and the editor-change handler
\* calls detectRemovedLinks(n, editor.getValue()).
EditAndDetect(n, newLinks, edit, path) ==
    \E r \in {detectRemovedLinks(cache[n], Render(newLinks))} :
        /\ noteLinks' = [noteLinks EXCEPT ![n] = newLinks]
        /\ cache' = [cache EXCEPT ![n] = r.entry]
        /\ synced' = [synced EXCEPT ![n] = ~r.threw]
        /\ removed' = IF r.threw THEN removed ELSE r.removed
        /\ trackOp' = [kind |-> "detect", note |-> n, edit |-> edit, path |-> path,
                       prev |-> cache[n], synced |-> synced[n], threw |-> r.threw]
        /\ UNCHANGED <<opened, capVars, plugVars, dialogVars>>

InsertLink(n) ==
    /\ Len(noteLinks[n]) < LinkLimit(n)
    /\ \E l \in LinkChoices(n) :
         EditAndDetect(n, Append(noteLinks[n], l), "insert", l.filePath)

DeleteLink(n) ==
    \E k \in 1..Len(noteLinks[n]) :
      EditAndDetect(n,
                    SubSeq(noteLinks[n], 1, k - 1)
                      \o SubSeq(noteLinks[n], k + 1, Len(noteLinks[n])),
                    "delete", noteLinks[n][k].filePath)

\* A caption-only edit of one link of the primary note
EditCaption ==
    \E k \in 1..Len(noteLinks["n.md"]), c \in TrackCaptions :
      /\ c # noteLinks["n.md"][k].caption
      /\ EditAndDetect("n.md", [noteLinks["n.md"] EXCEPT ![k].caption = c],
                       "caption", noteLinks["n.md"][k].filePath)

----------------------------------------------------------------------------
(* The tracker as the plugin drives it: active-leaf-change, the debounced   *)
(* editor-change handler, and a note being closed.                          *)

\* active-leaf-change with a markdown view of note n:
\* linkTrackerService.updateCache(view.file.path, view.editor.getValue())
LeafChange(n) ==
    \E r \in {updateCache(cache[n], Render(noteLinks[n]))} :
        /\ opened' = opened \cup {n}
        /\ cache' = [cache EXCEPT ![n] = r.entry]
        /\ synced' = [synced EXCEPT ![n] = IF r.threw THEN @ ELSE TRUE]
        /\ trackOp' = [kind |-> "open", note |-> n, edit |-> "none", path |-> <<>>,
                       prev |-> cache[n], synced |-> synced[n], threw |-> r.threw]
        /\ UNCHANGED <<noteLinks, removed, capVars, plugVars, dialogVars>>

\* The user edits open note n into newLinks and handleEditorChange runs: it
\* returns early when the note has no cache entry, otherwise it calls
\* detectRemovedLinks (deletePromptBehavior is not 'never', no caption edit
\* is in progress)
handleEditorChange(n, newLinks, edit, path) ==
    /\ n \in opened
    /\ IF ~cache[n].has
       THEN /\ noteLinks' = [noteLinks EXCEPT ![n] = newLinks]
            /\ synced' = [synced EXCEPT ![n] = FALSE]
            /\ trackOp' = [kind |-> "skipped", note |-> n, edit |-> edit, path |-> path,
                           prev |-> cache[n], synced |-> synced[n], threw |-> FALSE]
            /\ UNCHANGED <<cache, removed, opened, capVars, plugVars, dialogVars>>
       ELSE EditAndDetect(n, newLinks, edit, path)

TypeLink(n) ==
    /\ Len(noteLinks[n]) < LinkLimit(n)
    /\ \E l \in LinkChoices(n) :
         handleEditorChange(n, Append(noteLinks[n], l), "insert", l.filePath)

EraseLink(n) ==
    \E k \in 1..Len(noteLinks[n]) :
      handleEditorChange(n,
                         SubSeq(noteLinks[n], 1, k - 1)
                           \o SubSeq(noteLinks[n], k + 1, Len(noteLinks[n])),
                         "delete", noteLinks[n][k].filePath)

\* The view of note n is closed: no handler of the plugin touches the tracker
CloseNote(n) ==
    /\ n \in opened
    /\ opened' = opened \ {n}
    /\ trackOp' = [kind |-> "close", note |-> n, edit |-> "none", path |-> <<>>,
                   prev |-> cache[n], synced |-> synced[n], threw |-> FALSE]
    /\ UNCHANGED <<cache, noteLinks, synced, removed, capVars, plugVars, dialogVars>>

----------------------------------------------------------------------------
(* utils/filename.ts, BulkRenameService.isGenericName *)

\* INVALID_FILENAME_CHARS = /[\\/:*?"<>|]/g
INVALID_FILENAME_CHARS == {"\\", "/", ":", "*", "?", "\"", "<", ">", "|"}

RemoveChars(s, Bad) == SelectSeq(s, LAMBDA c : c \notin Bad)

\* .replace(/\s+/g, ' ')
RECURSIVE CollapseSpaces(_)
CollapseSpaces(s) ==
    IF s = <<>> THEN <<>>
    ELSE IF IsSpace(s[1])
         THEN <<" ">> \o CollapseSpaces(SubSeq(s, SpaceRunEnd(s, 1), Len(s)))
         ELSE <<s[1]>> \o CollapseSpaces(Tail(s))

\* String.prototype.trim
RECURSIVE Trim(_)
Trim(s) ==
    IF s = <<>> THEN s
    ELSE IF IsSpace(s[1]) THEN Trim(Tail(s))
    ELSE IF IsSpace(s[Len(s)]) THEN Trim(SubSeq(s, 1, Len(s) - 1))
    ELSE s

\* sanitizeFilename(name, aggressive) with aggressive = false, the value of
\* DEFAULT_SETTINGS.aggressiveSanitization
sanitizeFilename(name) ==
    Trim(CollapseSpaces(RemoveChars(name, INVALID_FILENAME_CHARS)))

\* Characters outside ASCII are written by their code point: "U+00E8" is e
\* with grave, "U+00E0" a with grave, "U+00E9" e with acute; "U+0300" and
\* "U+0301" are the combining grave and acute accents.
Decomposed(c) ==
    IF c = "U+00E8" THEN <<"e", "U+0300">>
    ELSE IF c = "U+00E0" THEN <<"a", "U+0300">>
    ELSE IF c = "U+00E9" THEN <<"e", "U+0301">>
    ELSE <<c>>

\* A normalisation that leaves every character as it is
keepComposed(s) == s

\* String.prototype.normalize('NFD')
RECURSIVE normalizeNFD(_)
normalizeNFD(s) ==
    IF s = <<>> THEN <<>> ELSE Decomposed(s[1]) \o normalizeNFD(Tail(s))

\* /[\u0300-\u036f]/
CombiningMarks == {"U+0300", "U+0301"}

\* /[^a-zA-Z0-9\s_-]/ : the characters that stay
IsKept(c) ==
    \/ IsDigit(c)
    \/ \E i \in 1..26 : UpperChars[i] = c \/ LowerChars[i] = c
    \/ IsSpace(c)
    \/ c \in {"_", "-"}

\* .replace(/\s+/g, '_').replace(/_+/g, '_'): every run of white space
\* becomes one underscore, then every run of underscores becomes one
RECURSIVE CollapseUnderscores(_)
CollapseUnderscores(s) ==
    IF s = <<>> THEN <<>>
    ELSE IF Len(s) >= 2 /\ s[1] = "_" /\ s[2] = "_" THEN CollapseUnderscores(Tail(s))
    ELSE <<s[1]>> \o CollapseUnderscores(Tail(s))

SpacesToUnderscores(s) ==
    CollapseUnderscores([i \in 1..Len(CollapseSpaces(s)) |->
                           IF IsSpace(CollapseSpaces(s)[i]) THEN "_" ELSE CollapseSpaces(s)[i]])

\* .replace(/^_|_$/g, ''): one underscore off each end
StripUnderscores(s) ==
    SubSeq(s, IF s # <<>> /\ s[1] = "_" THEN 2 ELSE 1,
              IF Len(s) >= 2 /\ s[Len(s)] = "_" THEN Len(s) - 1 ELSE Len(s))

\* sanitizeFilename(name, true)
sanitizeAggressive(name) ==
    toLowerCase(
      StripUnderscores(
        SpacesToUnderscores(
          SelectSeq(
            RemoveChars(RemoveChars(normalizeNFD(Trim(name)), CombiningMarks),
                        INVALID_FILENAME_CHARS),
            IsKept))))

\* sanitizeFilename(name, aggressive)
sanitize(name, aggressive) ==
    IF aggressive THEN sanitizeAggressive(name) ELSE sanitizeFilename(name)

\* (n) => n.toString().padStart(2, '0')
pad(n) == IF n < 10 THEN <<"0">> \o NatToStr(n) ELSE NatToStr(n)

\* formatTimestamp(format) at the wall-clock time now
formatTimestamp(format, now) ==
    LET f1 == ReplaceFirst(format, <<"Y", "Y", "Y", "Y">>, NatToStr(now.year))
        f2 == ReplaceFirst(f1, <<"M", "M">>, pad(now.month))
        f3 == ReplaceFirst(f2, <<"D", "D">>, pad(now.day))
        f4 == ReplaceFirst(f3, <<"H", "H">>, pad(now.hours))
        f5 == ReplaceFirst(f4, <<"m", "m">>, pad(now.minutes))
    IN  ReplaceFirst(f5, <<"s", "s">>, pad(now.seconds))

isImageFile(ext) == toLowerCase(ext) \in IMAGE_EXTENSIONS

\* getExtensionFromMime('image/png')
PngExtension == <<"p", "n", "g">>

\* removeNoteSuffixes: the first suffix the name ends with is cut off
RECURSIVE removeNoteSuffixes(_, _)
removeNoteSuffixes(basename, suffixes) ==
    IF suffixes = <<>> THEN basename
    ELSE IF EndsWith(toLowerCase(basename), toLowerCase(suffixes[1]))
         THEN Slice(basename, 0, Len(basename) - Len(suffixes[1]))
         ELSE removeNoteSuffixes(basename, Tail(suffixes))

\* The offsets at which the rest of  ^word[-_ ]?  can start, case-insensitive
AfterWord(s, word) ==
    IF ~StartsWithAt(toLowerCase(s), word, 0) THEN {}
    ELSE {Len(word)} \cup
         (IF Len(s) > Len(word) /\ s[Len(word) + 1] \in {"-", "_", " "}
          THEN {Len(word) + 1} ELSE {})

AllDigitsFrom(s, k) == \A i \in (k + 1)..Len(s) : IsDigit(s[i])

\* /^word[-_ ]?\d+$/i
WordThenNumber(s, word) ==
    \E k \in AfterWord(s, word) : k < Len(s) /\ AllDigitsFrom(s, k)

\* GENERIC_NAME_PATTERNS.some(pattern => pattern.test(basename))
isGenericName(basename) ==
    \/ \E k \in AfterWord(basename, <<"p", "a", "s", "t", "e", "d">>) :
         StartsWithAt(toLowerCase(basename), <<"i", "m", "a", "g", "e">>, k)
    \/ StartsWithAt(toLowerCase(basename), <<"s", "c", "r", "e", "e", "n", "s", "h", "o", "t">>, 0)
    \/ \E k \in AfterWord(basename, <<"s", "c", "r", "e", "e", "n">>) :
         StartsWithAt(toLowerCase(basename), <<"s", "h", "o", "t">>, k)
    \/ WordThenNumber(basename, <<"i", "m", "a", "g", "e">>)
    \/ WordThenNumber(basename, <<"i", "m", "g">>)
    \/ WordThenNumber(basename, <<"p", "h", "o", "t", "o">>)
    \/ \E k \in AfterWord(basename, <<"c", "l", "i", "p", "b", "o", "a", "r", "d">>) : AllDigitsFrom(basename, k)
    \/ Len(basename) >= 8 /\ \A i \in 1..8 : IsDigit(basename[i])

\* TFile: name, extension, basename and parent.path of a file at a path
\* (the vault root's path is '' as in  file.parent?.path || '')
FileName(path) == LastSegment(path)
FileExtension(path) ==
    LET name == FileName(path)
    IN  IF LastIndexOf(name, ".") < 0 THEN <<>>
        ELSE SliceFrom(name, LastIndexOf(name, ".") + 1)
FileBasename(path) ==
    LET name == FileName(path)
    IN  IF LastIndexOf(name, ".") < 0 THEN name
        ELSE Slice(name, 0, LastIndexOf(name, "."))
ParentPath(path) ==
    IF LastIndexOf(path, "/") < 0 THEN <<>>
    ELSE Slice(path, 0, LastIndexOf(path, "/"))

\* `${folderPath}/${fileName}`, or fileName alone when folderPath is ''
JoinPath(folderPath, fileName) ==
    IF folderPath # <<>> THEN folderPath \o <<"/">> \o fileName ELSE fileName

----------------------------------------------------------------------------
(* The host vault, FileService, and the plugin started on one active note *)

Handlers == 1..MaxInserts                  \* paste / drop handler invocations
Files    == 1..(MaxInserts + MaxExternal)  \* TFile objects
NoPath   == <<>>

\* DEFAULT_SETTINGS
timestampFormat == <<"Y", "Y", "Y", "Y", "M", "M", "D", "D", "-", "H", "H", "m", "m", "s", "s">>
suffixesToRemove == <<<<".", "e", "x", "c", "a", "l", "i", "d", "r", "a", "w">>, <<".", "c", "a", "n", "v", "a", "s">>>>

\* getAttachmentFolder(activeFile): the vault root or a one-level folder
AttachmentFolders == {<<>>, <<"a", "t", "t">>}

\* Names under which other programs create image files
ExternalNames == {<<"i", "m", "a", "g", "e", "1", ".", "p", "n", "g">>, <<"c", "a", "t", ".", "p", "n", "g">>}

\* new Date() on a day whose seconds are the model's clock
Now == [year |-> 2025, month |-> 1, day |-> 1, hours |-> 0, minutes |-> 0,
        seconds |-> clock]

\* Every path the vault index holds
VaultPaths == folders \cup {filePath[id] : id \in {i \in Files : filePath[i] # NoPath}}

\* app.vault.getAbstractFileByPath(path) is not null
getAbstractFileByPath(path) == path \in VaultPaths

\* The candidate every probe starts from, returned without a check
getFirstCandidate(folderPath, baseName, extension) ==
    IF settings.suffixMode = "timestamp"
    THEN JoinPath(folderPath, baseName \o <<" ">> \o formatTimestamp(timestampFormat, Now)
                                \o <<".">> \o extension)
    ELSE JoinPath(folderPath, baseName \o <<" ">> \o <<"1">> \o <<".">> \o extension)

\* A probe that starts counting one number too high
ProbeSequentialFromNext(folderPath, baseName, extension, n) ==
    JoinPath(folderPath,
             baseName \o <<" ">>
               \o NatToStr(Min({k \in (n + 1)..(n + 8) :
                      ~getAbstractFileByPath(
                         JoinPath(folderPath, baseName \o <<" ">> \o NatToStr(k)
                                                \o <<".">> \o extension))}))
               \o <<".">> \o extension)

\* while (true) { `${baseName} ${n}.${extension}` ... n++ }
RECURSIVE ProbeSequential(_, _, _, _)
ProbeSequential(folderPath, baseName, extension, n) ==
    LET candidate == JoinPath(folderPath, baseName \o <<" ">> \o NatToStr(n)
                                            \o <<".">> \o extension)
    IN  IF ~getAbstractFileByPath(candidate) THEN candidate
        ELSE ProbeSequential(folderPath, baseName, extension, n + 1)

\* while (true) { `${baseName} ${suffix}-${n}.${extension}` ... n++ }
RECURSIVE ProbeTimestamp(_, _, _, _, _)
ProbeTimestamp(folderPath, baseName, extension, suffix, n) ==
    LET candidate == JoinPath(folderPath, baseName \o <<" ">> \o suffix \o <<"-">>
                                            \o NatToStr(n) \o <<".">> \o extension)
    IN  IF ~getAbstractFileByPath(candidate) THEN candidate
        ELSE ProbeTimestamp(folderPath, baseName, extension, suffix, n + 1)

\* FileService.getAvailablePath once ensureFolderExists has returned
getAvailablePath(folderPath, baseName, extension) ==
    IF settings.suffixMode = "timestamp"
    THEN LET suffix == formatTimestamp(timestampFormat, Now)
             first  == JoinPath(folderPath, baseName \o <<" ">> \o suffix
                                              \o <<".">> \o extension)
         IN  IF getAbstractFileByPath(first)
             THEN ProbeTimestamp(folderPath, baseName, extension, suffix, 1)
             ELSE first
    ELSE ProbeSequential(folderPath, baseName, extension, 1)

\* activeFile.extension === 'md' && basename.toLowerCase().endsWith('.excalidraw')
isExcalidraw(basename) == EndsWith(toLowerCase(basename), <<".", "e", "x", "c", "a", "l", "i", "d", "r", "a", "w">>)

\* The TFile id the host gives the next created file
NewFile == Min({id \in Files : origin[id] = "none"})

IdleInsert ==
    [pc |-> "idle", availablePath |-> NoPath, atCall |-> {}, atProbe |-> {},
     error |-> "none"]
IdleCreate ==
    [pc |-> "none", newPath |-> NoPath, target |-> NoPath, atProbe |-> {},
     error |-> "none"]

\* The plugin after onload and layout-ready (isStartupComplete = true,
\* autoRenameOnCreate = true) on an empty vault
PlugStarted(s) ==
    /\ settings = s
    /\ filePath = [id \in Files |-> NoPath]
    /\ origin = [id \in Files |-> "none"]
    /\ folders = {}
    /\ mkdirPending = {}
    /\ clock = 0
    /\ ins = [h \in Handlers |-> IdleInsert]
    /\ fc = [id \in Files |-> IdleCreate]
    /\ createEvents = {}
    /\ processingFiles = {}
    /\ expiryTimers = {}
    /\ forceRenameNext = FALSE
    /\ forceTimers = 0
    /\ notices = {}

PlugIdle ==
    PlugStarted([suffixMode |-> "sequential", attachmentFolder |-> <<>>,
                 activeNote |-> <<"N">>])

\* The settings and active notes the plugin is started with
Configurations ==
    { [suffixMode |-> "sequential", attachmentFolder |-> <<>>, activeNote |-> <<"N">>],
      [suffixMode |-> "sequential", attachmentFolder |-> <<>>, activeNote |-> <<"i", "m", "g">>],
      [suffixMode |-> "sequential", attachmentFolder |-> <<"a", "t", "t">>, activeNote |-> <<"N">>],
      [suffixMode |-> "timestamp", attachmentFolder |-> <<>>, activeNote |-> <<"N">>],
      [suffixMode |-> "sequential", attachmentFolder |-> <<>>,
       activeNote |-> <<"D", ".", "e", "x", "c", "a", "l", "i", "d", "r", "a", "w">>],
      \* a note whose name sanitizeFilename empties
      [suffixMode |-> "sequential", attachmentFolder |-> <<>>, activeNote |-> <<"?">>] }

PlugInit == \E s \in Configurations : PlugStarted(s)

----------------------------------------------------------------------------
(* handlePaste / handleDrop: one image saved by ImageProcessor.processImage. *)
(* handleDrop runs the same body for each dropped image.                    *)

FolderPath == settings.attachmentFolder

\* getAvailablePath ran its existence checks: the handler holds the path
Resolved(h, atCall) ==
    [ins EXCEPT ![h] =
       [pc |-> "write",
        availablePath |-> getAvailablePath(FolderPath,
                                           sanitizeFilename(settings.activeNote),
                                           PngExtension),
        atCall |-> atCall, atProbe |-> VaultPaths, error |-> "none"]]

\* A catch that lets the handler go on to the insertion
FailedButContinues(h, error) ==
    /\ ins' = [ins EXCEPT ![h].pc = "written", ![h].error = error]
    /\ notices' = notices \cup {"failedToSave"}

\* processImage: const markdownLink = `![[${fileName}]]`
markdownLink(fileName) == <<"!", "[", "[">> \o fileName \o <<"]", "]">>

\* catch (error): the notice is shown and the handler is over for this image
FailedToSave(h, error) ==
    /\ ins' = [ins EXCEPT ![h].pc = "done", ![h].error = error]
    /\ notices' = notices \cup {"failedToSave"}

\* editor-paste / editor-drop are raised by a markdown editor (a drawing is
\* edited in its own view).  The handler runs up to its first await on I/O:
\* with no folder to create the path is resolved at once; otherwise
\* ensureFolderExists calls vault.createFolder, which the host rejects or
\* queues.
PasteStart(h) ==
    /\ ~isExcalidraw(settings.activeNote)
    /\ ins[h].pc = "idle"
    /\ IF h = 1 THEN TRUE ELSE ins[h - 1].pc # "idle"
    /\ IF FolderPath = <<>> \/ FolderPath \in folders
       THEN /\ ins' = Resolved(h, VaultPaths)
            /\ UNCHANGED <<mkdirPending, notices>>
       ELSE IF FolderPath \notin mkdirPending
       THEN /\ mkdirPending' = mkdirPending \cup {FolderPath}
            /\ ins' = [ins EXCEPT ![h].pc = "mkdir", ![h].atCall = VaultPaths]
            /\ UNCHANGED notices
       ELSE \* the folder is on disk and not yet in the index: the host may
            \* reject with "Folder already exists." or wait for the same folder
            \/ /\ FailedToSave(h, "Folder already exists.")
               /\ UNCHANGED mkdirPending
            \/ /\ ins' = [ins EXCEPT ![h].pc = "mkdir", ![h].atCall = VaultPaths]
               /\ UNCHANGED <<mkdirPending, notices>>
    /\ UNCHANGED <<settings, filePath, origin, folders, clock, fc, createEvents,
                   processingFiles, expiryTimers, forceRenameNext, forceTimers,
                   capVars, trackVars, dialogVars>>

\* The host adds a created folder to the vault index.
IndexFolder(f) ==
    /\ f \in mkdirPending
    /\ folders' = folders \cup {f}
    /\ mkdirPending' = mkdirPending \ {f}
    /\ UNCHANGED <<settings, filePath, origin, clock, ins, fc, createEvents,
                   processingFiles, expiryTimers, forceRenameNext, forceTimers,
                   notices, capVars, trackVars, dialogVars>>

\* await createFolder(...) returns; getAvailablePath probes.
PasteFolderReady(h) ==
    /\ ins[h].pc = "mkdir"
    /\ FolderPath \in folders
    /\ ins' = Resolved(h, ins[h].atCall)
    /\ UNCHANGED <<settings, filePath, origin, folders, mkdirPending, clock, fc,
                   createEvents, processingFiles, expiryTimers, forceRenameNext,
                   forceTimers, notices, capVars, trackVars, dialogVars>>

\* await imageFile.arrayBuffer() returns; vault.createBinary(availablePath)
\* creates the file and raises 'create', or rejects when the path exists.
PasteWrite(h) ==
    /\ ins[h].pc = "write"
    /\ IF getAbstractFileByPath(ins[h].availablePath)
       THEN /\ FailedToSave(h, "File already exists.")
            /\ UNCHANGED <<filePath, origin, createEvents>>
       ELSE /\ filePath' = [filePath EXCEPT ![NewFile] = ins[h].availablePath]
            /\ origin' = [origin EXCEPT ![NewFile] = "paste"]
            /\ createEvents' = createEvents \cup {NewFile}
            /\ ins' = [ins EXCEPT ![h].pc = "written"]
            /\ UNCHANGED notices
    /\ UNCHANGED <<settings, folders, mkdirPending, clock, fc, processingFiles,
                   expiryTimers, forceRenameNext, forceTimers, capVars, trackVars, dialogVars>>

\* processImage returned: processingFiles.add(result.fileName), the 1000 ms
\* timer is set, the link is inserted and the notice shown.
PasteFinish(h) ==
    /\ ins[h].pc = "written"
    /\ processingFiles' = processingFiles \cup {FileName(ins[h].availablePath)}
    /\ expiryTimers' = expiryTimers \cup {h}
    /\ insertedLinks' = Append(insertedLinks,
                               [handler |-> h,
                                link |-> markdownLink(FileName(ins[h].availablePath))])
    /\ notices' = notices \cup {"imageSavedAs"}
    /\ ins' = [ins EXCEPT ![h].pc = "done"]
    /\ UNCHANGED <<settings, filePath, origin, folders, mkdirPending, clock, fc,
                   createEvents, forceRenameNext, forceTimers, capVars, trackVars,
                   promptVars, bulkVars, docEmbeds, scanOp, sanIn, sanOut, editVars>>

\* setTimeout(() => this.processingFiles.delete(result.fileName), 1000)
ExpireProcessing(h) ==
    /\ h \in expiryTimers
    /\ processingFiles' = processingFiles \ {FileName(ins[h].availablePath)}
    /\ expiryTimers' = expiryTimers \ {h}
    /\ UNCHANGED <<settings, filePath, origin, folders, mkdirPending, clock, ins,
                   fc, createEvents, forceRenameNext, forceTimers, notices,
                   capVars, trackVars, dialogVars>>

----------------------------------------------------------------------------
(* handleFileCreate, handleGlobalDrop, and the world around the plugin *)

\* Another program (the host's own paste, a drawing tool, a sync client)
\* creates an image file in the attachment folder.
ExternalCreate(name) ==
    /\ Cardinality({id \in Files : origin[id] = "external"}) < MaxExternal
    /\ (FolderPath = <<>> \/ FolderPath \in folders)
    /\ ~getAbstractFileByPath(JoinPath(FolderPath, name))
    /\ filePath' = [filePath EXCEPT ![NewFile] = JoinPath(FolderPath, name)]
    /\ origin' = [origin EXCEPT ![NewFile] = "external"]
    /\ createEvents' = createEvents \cup {NewFile}
    /\ UNCHANGED <<settings, folders, mkdirPending, clock, ins, fc, processingFiles,
                   expiryTimers, forceRenameNext, forceTimers, notices,
                   capVars, trackVars, dialogVars>>

\* vault.on('create') is delivered: handleFileCreate up to its 100 ms wait.
DeliverCreate(id) ==
    /\ id \in createEvents
    /\ createEvents' = createEvents \ {id}
    /\ IF \/ ~isImageFile(FileExtension(filePath[id]))
          \/ FileName(filePath[id]) \in processingFiles
          \/ ~(isGenericName(FileBasename(filePath[id])) \/ forceRenameNext)
       THEN /\ fc' = [fc EXCEPT ![id].pc = "returned"]
            /\ UNCHANGED forceRenameNext
       ELSE /\ fc' = [fc EXCEPT ![id].pc = "wait100"]
            /\ forceRenameNext' = FALSE
    /\ UNCHANGED <<settings, filePath, origin, folders, mkdirPending, clock, ins,
                   processingFiles, expiryTimers, forceTimers, notices,
                   capVars, trackVars, dialogVars>>

\* The name handleFileCreate gives the file: the probed path's file name
\* with the first '.ext' removed, under the file's folder.
RenameTarget(path, newPath) ==
    LET extension   == FileExtension(path)
        newFileName == LastSegment(newPath)
        newBaseName == ReplaceFirst(newFileName, <<".">> \o extension, <<>>)
    IN  JoinPath(ParentPath(path), newBaseName \o <<".">> \o extension)

\* The 100 ms wait is over: the name is built from the active note, the
\* file's path is added to processingFiles, getAvailablePath probes the
\* file's folder (which exists) and fileManager.renameFile is called.
ResumeCreate(id) ==
    LET path      == filePath[id]
        sanitized == sanitizeFilename(removeNoteSuffixes(settings.activeNote,
                                                         suffixesToRemove))
        newPath   == getAvailablePath(ParentPath(path), sanitized, FileExtension(path))
        target    == RenameTarget(path, newPath)
    IN  /\ fc[id].pc = "wait100"
        /\ IF sanitized = <<>>
           THEN /\ fc' = [fc EXCEPT ![id].pc = "done"]
                /\ UNCHANGED <<processingFiles, notices>>
           ELSE IF getAbstractFileByPath(target)
           THEN \* the host rejects at once; catch shows the notice, finally
                \* deletes the path just added
                /\ fc' = [fc EXCEPT ![id] =
                            [pc |-> "done", newPath |-> newPath, target |-> target,
                             atProbe |-> VaultPaths,
                             error |-> "Destination file already exists!"]]
                /\ processingFiles' = processingFiles \ {path}
                /\ notices' = notices \cup {"autoRenameExistsError"}
           ELSE /\ fc' = [fc EXCEPT ![id] =
                            [pc |-> "renaming", newPath |-> newPath, target |-> target,
                             atProbe |-> VaultPaths, error |-> "none"]]
                /\ processingFiles' = processingFiles \cup {path}
                /\ UNCHANGED notices
        /\ UNCHANGED <<settings, filePath, origin, folders, mkdirPending, clock, ins,
                       createEvents, expiryTimers, forceRenameNext, forceTimers,
                       capVars, trackVars, dialogVars>>

\* The host finishes the rename: it moves the file (the TFile's path
\* changes in place), or rejects because the destination now exists.  Then
\* the notice is shown and finally runs processingFiles.delete(file.path).
RenameDone(id) ==
    /\ fc[id].pc = "renaming"
    /\ IF getAbstractFileByPath(fc[id].target)
       THEN /\ fc' = [fc EXCEPT ![id].pc = "done",
                                ![id].error = "Destination file already exists!"]
            /\ notices' = notices \cup {"autoRenameExistsError"}
            /\ processingFiles' = processingFiles \ {filePath[id]}
            /\ UNCHANGED filePath
       ELSE /\ fc' = [fc EXCEPT ![id].pc = "done"]
            /\ filePath' = [filePath EXCEPT ![id] = fc[id].target]
            /\ notices' = notices \cup {"autoRenamedTo"}
            /\ processingFiles' = processingFiles \ {fc[id].target}
    /\ UNCHANGED <<settings, origin, folders, mkdirPending, clock, ins, createEvents,
                   expiryTimers, forceRenameNext, forceTimers, capVars, trackVars, dialogVars>>

\* A drop anywhere in the window: on a drawing the force flag is set and a
\* 5000 ms reset is scheduled; on any other note nothing changes.
GlobalDrop ==
    /\ forceTimers < MaxInserts
    /\ IF isExcalidraw(settings.activeNote)
       THEN /\ forceRenameNext' = TRUE
            /\ forceTimers' = forceTimers + 1
       ELSE UNCHANGED <<forceRenameNext, forceTimers>>
    /\ UNCHANGED <<settings, filePath, origin, folders, mkdirPending, clock, ins, fc,
                   createEvents, processingFiles, expiryTimers, notices,
                   capVars, trackVars, dialogVars>>

\* setTimeout(() => { this.forceRenameNext = false; }, 5000)
ForceTimeout ==
    /\ forceTimers > 0
    /\ forceRenameNext' = FALSE
    /\ forceTimers' = forceTimers - 1
    /\ UNCHANGED <<settings, filePath, origin, folders, mkdirPending, clock, ins, fc,
                   createEvents, processingFiles, expiryTimers, notices,
                   capVars, trackVars, dialogVars>>

\* A second passes on the wall clock (only timestamp names read it).
Tick ==
    /\ settings.suffixMode = "timestamp"
    /\ clock < MaxClock
    /\ clock' = clock + 1
    /\ UNCHANGED <<settings, filePath, origin, folders, mkdirPending, ins, fc,
                   createEvents, processingFiles, expiryTimers, forceRenameNext,
                   forceTimers, notices, capVars, trackVars, dialogVars>>

----------------------------------------------------------------------------
(* BulkRenameService: the planner (generatePreview) and executeBulkRename.  *)
(* The images live in the vault root; an ImageInfo holds its TFile (an id   *)
(* into bulkFiles), its source note's basename and the isGeneric flag.      *)

NoNote == <<"<", "n", "u", "l", "l", ">">>     \* sourceNote === null

ImageInfoOf(id, basename, sourceNote) ==
    [file |-> id, sourceNote |-> sourceNote, isGeneric |-> isGenericName(basename)]

\* usedNames.get(key) || 0
GetCount(usedNames, key) == IF key \in DOMAIN usedNames THEN usedNames[key] ELSE 0

\* usedNames.set(key, count)
SetCount(usedNames, key, count) ==
    [k \in DOMAIN usedNames \cup {key} |-> IF k = key THEN count ELSE usedNames[k]]

\* A planner run that starts from the map the previous run left behind
keepUsedNames(previous) == previous

\* const usedNames = new Map<string, number>(): every run starts from an
\* empty map, whatever the previous run left behind
newUsedNames(previous) == [k \in {} |-> 0]

\* A guard that recognises no name
followsNoPattern(filename, expectedBaseName) == FALSE

\* new RegExp(`^${escapedBase} \\d+$`).test(filename)
alreadyFollowsNamingPattern(filename, expectedBaseName) ==
    /\ Len(filename) >= Len(expectedBaseName) + 2
    /\ StartsWithAt(filename, expectedBaseName \o <<" ">>, 0)
    /\ AllDigitsFrom(filename, Len(expectedBaseName) + 1)

filterImages(images, filter) ==
    IF filter = "all" THEN images ELSE SelectSeq(images, LAMBDA img : img.isGeneric)

NoteToken == <<"{", "n", "o", "t", "e", "}">>
OriginalToken == <<"{", "o", "r", "i", "g", "i", "n", "a", "l", "}">>
CounterToken == <<"{", "n", "}">>

\* image.sourceNote?.basename || 'Untitled'
NoteNameOf(sourceNote) ==
    IF sourceNote \in {NoNote, <<>>} THEN <<"U", "n", "t", "i", "t", "l", "e", "d">>
    ELSE sourceNote

\* The switch of generateNewName on a note name and the current name
NameForMode(noteName, currentName, mode, pattern) ==
    IF mode = "prepend" THEN noteName \o <<" ", "-", " ">> \o currentName
    ELSE IF mode = "pattern"
    THEN ReplaceFirst(ReplaceFirst(IF pattern = <<>> THEN NoteToken ELSE pattern,
                                   NoteToken, noteName),
                      OriginalToken, currentName)
    ELSE noteName

\* generateNewName(image, mode, pattern) for an image named currentName
generateNewName(currentName, sourceNote, mode, pattern) ==
    sanitizeFilename(NameForMode(NoteNameOf(sourceNote), currentName, mode, pattern))

\* The key under which the loop counts a base name
CountKey(baseName, mode, pattern) ==
    IF mode = "pattern" /\ IndexOf(pattern, CounterToken) >= 0
    THEN baseName ELSE toLowerCase(baseName)

\* The name proposed for a base name that is the count-th of its key
NumberedName(baseName, count, mode, pattern) ==
    IF mode = "pattern" /\ IndexOf(pattern, CounterToken) >= 0
    THEN ReplaceFirst(baseName, CounterToken, NatToStr(count))
    ELSE IF count > 1 \/ mode = "replace"
         THEN baseName \o <<" ">> \o NatToStr(count)
         ELSE baseName

\* A final guard that lets every item through
differsAlways(currentName, newName) == TRUE

\* An item is pushed unless the proposed name is the current one
differsFromCurrent(currentName, newName) == currentName # newName

\* One pass of the loop body of generatePreview for image img whose base
\* name is baseName: the items and the map after it
PlanStep(acc, img, currentName, baseName, mode, pattern) ==
    IF img.sourceNote = NoNote THEN acc
    ELSE IF mode = "replace"
            /\ alreadyFollowsNamingPattern(currentName, sanitizeFilename(img.sourceNote))
    THEN acc
    ELSE [usedNames |->
            SetCount(acc.usedNames, CountKey(baseName, mode, pattern),
                     GetCount(acc.usedNames, CountKey(baseName, mode, pattern)) + 1),
          items |->
            IF differsFromCurrent(currentName,
                 NumberedName(baseName,
                              GetCount(acc.usedNames, CountKey(baseName, mode, pattern)) + 1,
                              mode, pattern))
            THEN Append(acc.items,
                   [file |-> img.file, currentName |-> currentName,
                    newName |-> NumberedName(baseName,
                                  GetCount(acc.usedNames, CountKey(baseName, mode, pattern)) + 1,
                                  mode, pattern),
                    sourceNote |-> img.sourceNote, selected |-> FALSE,
                    isGeneric |-> img.isGeneric])
            ELSE acc.items]

\* for (const image of filteredImages) { ... }
RECURSIVE PlanLoop(_, _, _, _, _)
PlanLoop(acc, images, files, mode, pattern) ==
    IF images = <<>> THEN acc
    ELSE PlanLoop(PlanStep(acc, images[1], files[images[1].file].basename,
                           generateNewName(files[images[1].file].basename,
                                           images[1].sourceNote, mode, pattern),
                           mode, pattern),
                  Tail(images), files, mode, pattern)

\* generatePreview(images, mode, filter, pattern) on the vault's files, with
\* the map the run starts from: the items and the map at the end
generatePreview(images, files, mode, filter, pattern, usedNames) ==
    PlanLoop([usedNames |-> usedNames, items |-> <<>>],
             filterImages(images, filter), files, mode, pattern)

\* this.app.vault.getAbstractFileByPath(`${name}.${extension}`) in the root
ExistsInVault(files, name, extension) ==
    \E id \in DOMAIN files : files[id].basename = name /\ files[id].extension = extension

\* do { suffixedName = `${item.newName} ${counter}`; counter++ } while (exists)
RECURSIVE ProbeSuffixed(_, _, _, _)
ProbeSuffixed(files, newName, extension, counter) ==
    IF ExistsInVault(files, newName \o <<" ">> \o NatToStr(counter), extension)
    THEN ProbeSuffixed(files, newName, extension, counter + 1)
    ELSE newName \o <<" ">> \o NatToStr(counter)

\* The base name the rename of an item goes to
RenameName(files, item) ==
    IF ExistsInVault(files, item.newName, files[item.file].extension)
    THEN ProbeSuffixed(files, item.newName, files[item.file].extension, 1)
    ELSE item.newName

\* An executor that takes every item
everyItem(items) == items

\* items.filter((item) => item.selected)
selectedItems(items) == SelectSeq(items, LAMBDA item : item.selected)

NoResult == [success |-> 0, failed |-> 0, attempted |-> {}]

\* The loop body of executeBulkRename: the host rejects the renames of the
\* files in failing
ExecStep(acc, item, failing) ==
    IF item.currentName = item.newName THEN acc
    ELSE IF item.file \in failing
    THEN [acc EXCEPT !.result.failed = @ + 1,
                     !.result.attempted = @ \cup {item.file}]
    ELSE [acc EXCEPT !.result.success = @ + 1,
                     !.result.attempted = @ \cup {item.file},
                     !.files[item.file].basename = RenameName(acc.files, item)]

RECURSIVE ExecLoop(_, _, _)
ExecLoop(acc, items, failing) ==
    IF items = <<>> THEN acc
    ELSE ExecLoop(ExecStep(acc, items[1], failing), Tail(items), failing)

\* executeBulkRename(items): the result and the vault's files after it
executeBulkRename(items, files, failing) ==
    ExecLoop([result |-> NoResult, files |-> files], selectedItems(items), failing)

\* The image files of the vault: [basename, extension, sourceNote], where
\* sourceNote is the first note that embeds the image
ImagePool ==
    <<[basename |-> <<"x">>, extension |-> <<"p", "n", "g">>, sourceNote |-> <<"N">>],
      [basename |-> <<"x">>, extension |-> <<"j", "p", "g">>, sourceNote |-> <<"N">>],
      [basename |-> <<"x", " ", "2">>, extension |-> <<"p", "n", "g">>, sourceNote |-> <<"N">>],
      [basename |-> <<"N", " ", "2">>, extension |-> <<"p", "n", "g">>, sourceNote |-> <<"N">>],
      [basename |-> <<"i", "m", "g", "1">>, extension |-> <<"p", "n", "g">>, sourceNote |-> <<"n">>],
      [basename |-> <<"y">>, extension |-> <<"p", "n", "g">>, sourceNote |-> NoNote]>>

BulkFileIds == 1..Len(ImagePool)

\* BulkRenameModal's default pattern, and the patterns the user types
DefaultPattern == <<"{", "n", "o", "t", "e", "}", " ", "-", " ",
                    "{", "o", "r", "i", "g", "i", "n", "a", "l", "}">>
Patterns == {<<"{", "n", "o", "t", "e", "}", "-", "{", "n", "}">>,
             <<"{", "o", "r", "i", "g", "i", "n", "a", "l", "}">>}

BulkItem(file, currentName, newName, selected) ==
    [file |-> file, currentName |-> currentName, newName |-> newName,
     sourceNote |-> ImagePool[file].sourceNote, selected |-> selected,
     isGeneric |-> isGenericName(currentName)]

\* Item lists a caller hands to executeBulkRename directly
DirectItems ==
    {<<BulkItem(1, <<"x">>, <<"x">>, TRUE),
       BulkItem(3, <<"x", " ", "2">>, <<"z">>, FALSE),
       BulkItem(2, <<"x">>, <<"N", " ", "2">>, TRUE)>>}

\* The last planner run (was it a repeat of the run before, and its
\* arguments) and the executeBulkRename call of the dialog or caller
NoPlanOp == [repeat |-> FALSE, input |-> <<>>]
NoExecOp == [done |-> FALSE, items |-> <<>>, failing |-> {}, result |-> NoResult,
             before |-> <<>>]

BulkIdle ==
    /\ bulkFiles = [id \in BulkFileIds |->
                      [basename |-> ImagePool[id].basename,
                       extension |-> ImagePool[id].extension]]
    /\ scanned = <<>>
    /\ plan = <<>>
    /\ produced = <<>>
    /\ prevProduced = <<>>
    /\ lastUsedNames = [k \in {} |-> 0]
    /\ planOp = NoPlanOp
    /\ execOp = NoExecOp

\* scanImagesInNote / scanImagesInVault, which scanAndPreview calls before
\* the first preview: one more image enters the batch
ScanImage(id) ==
    /\ planOp.input = <<>>
    /\ ~execOp.done
    /\ Len(scanned) < MaxBatch
    /\ \A k \in 1..Len(scanned) : scanned[k].file # id
    /\ scanned' = Append(scanned, ImageInfoOf(id, bulkFiles[id].basename,
                                              ImagePool[id].sourceNote))
    /\ UNCHANGED <<bulkFiles, plan, produced, prevProduced, lastUsedNames, planOp, execOp,
                   capVars, trackVars, plugVars, promptVars, extraVars>>

\* BulkRenameModal.updatePreview: service.generatePreview(images, mode,
\* filter, pattern)
GeneratePreview(mode, filter, pattern) ==
    /\ ~execOp.done
    /\ scanned # <<>>
    /\ \E r \in {generatePreview(scanned, bulkFiles, mode, filter, pattern,
                                 newUsedNames(lastUsedNames))} :
         /\ plan' = r.items
         /\ produced' = r.items
         /\ lastUsedNames' = r.usedNames
    /\ prevProduced' = produced
    /\ planOp' = [repeat |-> planOp.input = <<scanned, bulkFiles, mode, filter, pattern>>,
                 input |-> <<scanned, bulkFiles, mode, filter, pattern>>]
    /\ UNCHANGED <<bulkFiles, scanned, execOp, capVars, trackVars, plugVars, promptVars, extraVars>>

\* A checkbox of the preview list is toggled
ToggleItem(k) ==
    /\ k \in 1..Len(plan)
    /\ ~execOp.done
    /\ plan' = [plan EXCEPT ![k].selected = ~@]
    /\ UNCHANGED <<bulkFiles, scanned, produced, prevProduced, lastUsedNames, planOp, execOp,
                   capVars, trackVars, plugVars, promptVars, extraVars>>

\* executeBulkRename(items); the host rejects the renames of the files in
\* failing
CallExecute(items, failing) ==
    /\ ~execOp.done
    /\ \E r \in {executeBulkRename(items, bulkFiles, failing)} :
         /\ bulkFiles' = r.files
         /\ execOp' = [done |-> TRUE, items |-> items, failing |-> failing,
                       result |-> r.result, before |-> bulkFiles]
    /\ UNCHANGED <<scanned, plan, produced, prevProduced, lastUsedNames, planOp,
                   capVars, trackVars, plugVars, promptVars, extraVars>>

\* BulkRenameModal.executeRename: returns with a notice when nothing is
\* selected, else executeBulkRename(previewItems) and close()
executeRename(failing) ==
    /\ \E k \in 1..Len(plan) : plan[k].selected
    /\ CallExecute(plan, failing)

\* executeBulkRename(items) called by another caller than the dialog
ExecuteBulkRename(items, failing) ==
    /\ scanned = <<>>
    /\ CallExecute(items, failing)

----------------------------------------------------------------------------
(* BulkRenameService.findOrphanedImages over a vault of documents and      *)
(* images. A document's embeds are the links metadataCache.getFileCache    *)
(* lists for it; getFirstLinkpathDest resolves a link to a file or to null.*)

\* The documents of the vault: a note, a canvas, an Excalidraw drawing, and a
\* text file that is none of the three
DocPool ==
    <<[name |-> <<"a", ".", "m", "d">>, extension |-> <<"m", "d">>],
      [name |-> <<"b", ".", "c", "a", "n", "v", "a", "s">>,
       extension |-> <<"c", "a", "n", "v", "a", "s">>],
      [name |-> <<"c", ".", "E", "x", "c", "a", "l", "i", "d", "r", "a", "w">>,
       extension |-> <<"E", "x", "c", "a", "l", "i", "d", "r", "a", "w">>],
      [name |-> <<"d", ".", "t", "x", "t">>, extension |-> <<"t", "x", "t">>]>>

Docs == 1..Len(DocPool)

\* The image files of the vault, and the link that resolves to no file
ScanImages ==
    <<[name |-> <<"p", ".", "p", "n", "g">>, extension |-> <<"p", "n", "g">>],
      [name |-> <<"q", ".", "J", "P", "G">>, extension |-> <<"J", "P", "G">>]>>

ScanLinks == {0} \cup (1..Len(ScanImages))

\* metadataCache.getFirstLinkpathDest(embed.link, doc.path): the image's id,
\* or 0 for null
getFirstLinkpathDest(link) == IF link \in 1..Len(ScanImages) THEN link ELSE 0

\* for (const embed of cache.embeds) ... linkedFile?.path === imageFile.path
EmbedsImage(embeds, d, image) ==
    \E link \in embeds[d] : getFirstLinkpathDest(link) = image

\* app.vault.getMarkdownFiles()
getMarkdownFiles == {d \in Docs : DocPool[d].extension = <<"m", "d">>}

\* findFirstReferencingNote(imageFile): the first note that embeds it, or 0
\* for null
findFirstReferencingNote(embeds, image) ==
    IF \E d \in getMarkdownFiles : EmbedsImage(embeds, d, image)
    THEN Min({d \in getMarkdownFiles : EmbedsImage(embeds, d, image)})
    ELSE 0

\* isReferencedInCanvas: files with f.extension === 'canvas'
isReferencedInCanvas(embeds, image) ==
    \E d \in {f \in Docs : DocPool[f].extension = <<"c", "a", "n", "v", "a", "s">>} :
      EmbedsImage(embeds, d, image)

\* isReferencedInExcalidraw: files with
\* f.name.toLowerCase().includes('.excalidraw')
isReferencedInExcalidraw(embeds, image) ==
    \E d \in {f \in Docs :
                IndexOf(toLowerCase(DocPool[f].name),
                        <<".", "e", "x", "c", "a", "l", "i", "d", "r", "a", "w">>) >= 0} :
      EmbedsImage(embeds, d, image)

\* A check that looks at notes only
isReferencedInNotes(embeds, image) == findFirstReferencingNote(embeds, image) # 0

\* isReferencedAnywhere(imageFile)
isReferencedAnywhere(embeds, image) ==
    IF findFirstReferencingNote(embeds, image) # 0 THEN TRUE
    ELSE IF isReferencedInCanvas(embeds, image) THEN TRUE
    ELSE isReferencedInExcalidraw(embeds, image)

\* findOrphanedImages() on the vault whose documents embed what embeds says:
\* the images (isImageFile) that isReferencedAnywhere rejects
orphanedImages(embeds) ==
    {image \in 1..Len(ScanImages) :
       isImageFile(ScanImages[image].extension) /\ ~isReferencedAnywhere(embeds, image)}

\* The name of Scenario 1, "Caffe` & Citta`" with precomposed accents
ScenarioName ==
    <<"C", "a", "f", "f", "U+00E8", " ", "&", " ", "C", "i", "t", "t", "U+00E0">>

\* The names sanitizeFilename is called on: the scenario's name, the name of
\* the test suite ("  Cafe' & Citta`  "), and every name of up to MaxName
\* characters of a small alphabet
NameChars == {"C", "U+00E8", " ", "&", "_", "/"}

Names ==
    {ScenarioName,
     <<" ", " ", "C", "a", "f", "U+00E9", " ", "&", " ", "C", "i", "t", "t", "U+00E0",
       " ", " ">>}
      \cup UNION {[1..n -> NameChars] : n \in 0..MaxName}

NoSanitize == [done |-> FALSE, aggressive |-> FALSE, value |-> <<>>]

NoScan == [done |-> FALSE, orphaned |-> {}]

ScanIdle ==
    /\ docEmbeds = [d \in Docs |-> {}]
    /\ scanOp = NoScan
    /\ insertedLinks = <<>>
    /\ sanIn = <<>>
    /\ sanOut = NoSanitize

\* No caption save in progress, no timer pending, nothing reported yet
EditIdle ==
    /\ isEditingCaption = FALSE
    /\ captionTimers = 0
    /\ onSaves = <<>>
    /\ debounceTimeout = FALSE
    /\ deletePrompts = {}

ExtraIdle == ScanIdle /\ EditIdle /\ deletePromptBehavior = "orphan-only"

\* A document is edited: an embed is added to it or removed from it, and the
\* metadata cache follows
ToggleEmbed(d, link) ==
    /\ docEmbeds' = [docEmbeds EXCEPT ![d] =
                       IF link \in @ THEN @ \ {link} ELSE @ \cup {link}]
    /\ scanOp' = NoScan
    /\ UNCHANGED <<insertedLinks, sanIn, sanOut, editVars, capVars, trackVars, plugVars,
                   promptVars, bulkVars>>

\* A name is given to sanitizeFilename's caller
ChooseName(name) ==
    /\ sanIn' = name
    /\ sanOut' = NoSanitize
    /\ UNCHANGED <<docEmbeds, scanOp, insertedLinks, editVars, capVars, trackVars,
                   plugVars, promptVars, bulkVars>>

\* sanitizeFilename(name, aggressive) is called
SanitizeFilename(aggressive) ==
    /\ sanOut' = [done |-> TRUE, aggressive |-> aggressive,
                  value |-> sanitize(sanIn, aggressive)]
    /\ UNCHANGED <<sanIn, docEmbeds, scanOp, insertedLinks, editVars, capVars, trackVars,
                   plugVars, promptVars, bulkVars>>

\* findOrphanedImages() is called
FindOrphanedImages ==
    /\ scanOp' = [done |-> TRUE, orphaned |-> orphanedImages(docEmbeds)]
    /\ UNCHANGED <<docEmbeds, insertedLinks, sanIn, sanOut, editVars, capVars, trackVars,
                   plugVars, promptVars, bulkVars>>

----------------------------------------------------------------------------
(* The caption modal's onSave callback, the debounced editor-change        *)
(* handler and the loop that opens the delete prompts.                     *)

MaxSaves == 2    \* caption saves whose 100 ms flag reset is outstanding

\* The image files of the vault
VaultImages == {PathA, PathB}

\* fileService.resolveImageLink(linkPath, notePath) returns a file
resolveImageLink(linkPath) == linkPath \in VaultImages

\* getImageBacklinks(imageFile, excludeNotePath): the other notes that link
\* the image
getImageBacklinks(texts, image, excludeNotePath) ==
    {m \in Notes \ {excludeNotePath} :
       \E k \in 1..Len(texts[m]) : texts[m][k].filePath = image}

\* The images the loop over removedLinks calls openDeleteModal for
promptedImages(removedLinkPaths, behavior, texts, n) ==
    {p \in removedLinkPaths :
       /\ resolveImageLink(p)
       /\ (behavior = "orphan-only" => getImageBacklinks(texts, p, n) = {})}

\* An invocation that returns before detectRemovedLinks
NoOutcome(kind, entry) ==
    [kind |-> kind, threw |-> FALSE, entry |-> entry, removed |-> {}, prompts |-> {}]

\* The outcome of detectRemovedLinks followed by the loop
detectAndPrompt(d, behavior, texts, n) ==
    [kind |-> "detect", threw |-> d.threw, entry |-> d.entry, removed |-> d.removed,
     prompts |-> IF d.threw THEN {}
                 ELSE promptedImages(d.removed, behavior, texts, n)]

\* handleEditorChange(editor, info) with info.file.path = n and
\* editor.getValue() = the text of texts[n]
editorChangeHandled(behavior, editing, entry, texts, n) ==
    IF behavior = "never" THEN NoOutcome("never", entry)
    ELSE IF editing THEN NoOutcome("flagged", entry)
    ELSE IF ~entry.has THEN NoOutcome("skipped", entry)
    ELSE detectAndPrompt(detectRemovedLinks(entry, Render(texts[n])), behavior, texts, n)

\* debounce(func, 300, true): func runs at once when no timeout is pending
\* and not at all otherwise; the timeout is re-armed by every call
debouncedEditorChange(timeout, behavior, editing, entry, texts, n) ==
    IF timeout THEN NoOutcome("dropped", entry)
    ELSE editorChangeHandled(behavior, editing, entry, texts, n)

\* The links the user types in note n.md
EditChoices ==
    {NewLink(PathA, "wiki"), NewLink(PathB, "markdown"), NewLink(PathBad, "markdown")}

\* workspace.on('editor-change'): the editor of note n holds texts[n] and the
\* debounced handler is called
EditorChange(n, texts, edit, path) ==
    \E r \in {debouncedEditorChange(debounceTimeout, deletePromptBehavior,
                                    isEditingCaption, cache[n], texts, n)} :
        /\ noteLinks' = texts
        /\ debounceTimeout' = TRUE
        /\ cache' = [cache EXCEPT ![n] = r.entry]
        /\ synced' = [synced EXCEPT ![n] = (r.kind = "detect" /\ ~r.threw)]
        /\ removed' = IF r.kind = "detect" /\ ~r.threw THEN r.removed ELSE removed
        /\ deletePrompts' = IF r.kind = "detect" THEN r.prompts ELSE deletePrompts
        /\ trackOp' = [kind |-> r.kind, note |-> n, edit |-> edit, path |-> path,
                       prev |-> NoCache, synced |-> FALSE, threw |-> r.threw]
        /\ UNCHANGED <<opened, deletePromptBehavior, capVars, plugVars, promptVars,
                       bulkVars, docEmbeds, scanOp, insertedLinks, sanIn, sanOut>>

\* The user types link l at the end of open note n
UserInsert(n, l) ==
    /\ n \in opened
    /\ Len(noteLinks[n]) < LinkLimit(n)
    /\ EditorChange(n, [noteLinks EXCEPT ![n] = Append(@, l)], "insert", l.filePath)
    /\ UNCHANGED <<isEditingCaption, captionTimers, onSaves>>

\* The user deletes a link of open note n
UserDelete(n) ==
    /\ n \in opened
    /\ \E k \in 1..Len(noteLinks[n]) :
         EditorChange(n,
                      [noteLinks EXCEPT ![n] =
                         SubSeq(@, 1, k - 1) \o SubSeq(@, k + 1, Len(@))],
                      "delete", noteLinks[n][k].filePath)
    /\ UNCHANGED <<isEditingCaption, captionTimers, onSaves>>

\* The text CaptionModal.save (caption typed) or .remove computes
modalContent(text, image, caption, button) ==
    IF button = "remove" THEN removeCaption(text, image)
    ELSE setCaption(text, image, caption)

\* CaptionModal.save() or .remove() for the image of link k of n.md, up to
\* the await of vault.modify in onSave: the note is read, the new content
\* computed, isEditingCaption set and the write issued.  save() returns
\* early when the link is not found; the Remove button exists only for a
\* captioned link.  One modal writes at a time.
CaptionSave(k, caption, button) ==
    /\ "n.md" \in opened
    /\ onSaves = <<>>
    /\ captionTimers < MaxSaves
    /\ noteLinks["n.md"][k].filePath \in VaultImages
    /\ button = "remove" => noteLinks["n.md"][k].caption # Null
    /\ findImageLink(Render(noteLinks["n.md"]), noteLinks["n.md"][k].filePath).ok
    /\ \E newContent \in {modalContent(Render(noteLinks["n.md"]),
                                        noteLinks["n.md"][k].filePath, caption, button)},
          j \in 1..Len(noteLinks["n.md"]), c \in TrackCaptions :
         /\ Render([noteLinks["n.md"] EXCEPT ![j].caption = c]) = newContent
         /\ onSaves' = Append(onSaves,
                              [image |-> noteLinks["n.md"][k].filePath,
                               newLinks |-> [noteLinks["n.md"] EXCEPT ![j].caption = c],
                               written |-> FALSE])
    /\ isEditingCaption' = TRUE
    /\ UNCHANGED <<captionTimers, debounceTimeout, deletePrompts,
                   deletePromptBehavior, capVars, trackVars, plugVars, promptVars,
                   bulkVars, docEmbeds, scanOp, insertedLinks, sanIn, sanOut>>

\* vault.modify(sourceNote, newContent) writes the file: the editor of the
\* note takes the new text and editor-change fires
ModifyWrite(i) ==
    /\ ~onSaves[i].written
    /\ onSaves' = [onSaves EXCEPT ![i].written = TRUE]
    /\ EditorChange("n.md", [noteLinks EXCEPT !["n.md"] = onSaves[i].newLinks],
                    "caption", onSaves[i].image)
    /\ UNCHANGED <<isEditingCaption, captionTimers>>

\* The await of vault.modify resumes: updateCache(sourceNote.path,
\* newContent), then setTimeout(() => { isEditingCaption = false }, 100).
\* When updateCache throws the timer is never set.
ModifyResolved(i) ==
    /\ onSaves[i].written
    /\ \E r \in {updateCache(cache["n.md"], Render(onSaves[i].newLinks))} :
         /\ cache' = [cache EXCEPT !["n.md"] = r.entry]
         /\ synced' = [synced EXCEPT !["n.md"] =
                         IF r.threw THEN @
                         ELSE noteLinks["n.md"] = onSaves[i].newLinks]
         /\ captionTimers' = IF r.threw THEN captionTimers ELSE captionTimers + 1
         /\ trackOp' = [kind |-> "update", note |-> "n.md", edit |-> "caption",
                        path |-> onSaves[i].image, prev |-> NoCache,
                        synced |-> FALSE, threw |-> r.threw]
    /\ onSaves' = SubSeq(onSaves, 1, i - 1) \o SubSeq(onSaves, i + 1, Len(onSaves))
    /\ UNCHANGED <<noteLinks, removed, opened, isEditingCaption, debounceTimeout,
                   deletePrompts, deletePromptBehavior,
                   capVars, plugVars, promptVars, bulkVars, docEmbeds, scanOp,
                   insertedLinks, sanIn, sanOut>>

\* setTimeout(() => { this.isEditingCaption = false; }, 100) fires
CaptionFlagTimeout ==
    /\ captionTimers > 0
    /\ captionTimers' = captionTimers - 1
    /\ isEditingCaption' = FALSE
    /\ UNCHANGED <<onSaves, debounceTimeout, deletePrompts,
                   deletePromptBehavior, capVars, trackVars, plugVars, promptVars,
                   bulkVars, docEmbeds, scanOp, insertedLinks, sanIn, sanOut>>

\* The debounce wrapper's timeout fires 300 ms after the last call: later()
\* clears it and, immediate being true, calls nothing
DebounceTimeout ==
    /\ debounceTimeout
    /\ debounceTimeout' = FALSE
    /\ UNCHANGED <<isEditingCaption, captionTimers, onSaves,
                   deletePrompts, deletePromptBehavior, capVars, trackVars, plugVars,
                   promptVars, bulkVars, docEmbeds, scanOp, insertedLinks, sanIn,
                   sanOut>>

----------------------------------------------------------------------------
(* DeleteImageModal, OrphanedImagesModal and ConfirmDeleteModal: the       *)
(* prompts in front of fileManager.trashFile and of moving orphans.        *)

Images == 1..MaxImages

ClosedModal == [open |-> FALSE, timer |-> FALSE, run |-> FALSE]

\* DeleteImageModal.onOpen: the orphan prompt arms the auto-dismiss timer
onOpen(isOrphanPrompt) == [open |-> TRUE, timer |-> isOrphanPrompt, run |-> FALSE]

\* A dismissal that runs the confirm callback
onCloseConfirming(m) == [open |-> FALSE, timer |-> FALSE, run |-> TRUE]

\* Modal.close() -> onClose: the timer is cleared, the callback is not run
onClose(m) == [open |-> FALSE, timer |-> FALSE, run |-> FALSE]

\* DeleteImageModal.confirm: clearTimeout, close(), void this.onConfirm()
confirm(m) == [onClose(m) EXCEPT !.run = TRUE]

\* fileManager.trashFile(file): the host trashes a file that is in the vault
\* and rejects for one that is not
trashFile(state, i) ==
    IF state[i] = "trashed" THEN state ELSE [state EXCEPT ![i] = "trashed"]

\* try { await host call; result.success++ } catch { result.failed++;
\* result.errors.push(...) } for image i, which the call takes to state to
BatchStep(acc, i, rejected, to) ==
    IF rejected
    THEN [acc EXCEPT !.result.failed = @ + 1, !.result.attempted = @ \cup {i}]
    ELSE [acc EXCEPT !.result.success = @ + 1, !.result.attempted = @ \cup {i},
                     !.state[i] = to]

\* BulkRenameService.deleteOrphanedImages: trashFile for each selected image;
\* the host rejects for the files in failing and for a file that is no
\* longer in the vault
RECURSIVE deleteOrphanedImages(_, _, _)
deleteOrphanedImages(acc, selected, failing) ==
    IF selected = {} THEN acc
    ELSE deleteOrphanedImages(
           BatchStep(acc, Min(selected),
                     Min(selected) \in failing
                       \/ trashFile(acc.state, Min(selected)) = acc.state,
                     "trashed"),
           selected \ {Min(selected)}, failing)

\* A move that gives up at the first rejected image
RECURSIVE moveOrphanedImagesAborting(_, _, _)
moveOrphanedImagesAborting(acc, selected, failing) ==
    IF selected = {} \/ acc.result.failed > 0 THEN acc
    ELSE moveOrphanedImagesAborting(
           BatchStep(acc, Min(selected),
                     Min(selected) \in failing \/ acc.state[Min(selected)] # "present",
                     "moved"),
           selected \ {Min(selected)}, failing)

\* BulkRenameService.moveOrphanedImages: renameFile into the target folder for
\* each selected image; the host rejects for the files in failing and for a
\* file that is no longer in the vault or is already at that path
RECURSIVE moveOrphanedImages(_, _, _)
moveOrphanedImages(acc, selected, failing) ==
    IF selected = {} THEN acc
    ELSE moveOrphanedImages(
           BatchStep(acc, Min(selected),
                     Min(selected) \in failing \/ acc.state[Min(selected)] # "present",
                     "moved"),
           selected \ {Min(selected)}, failing)

\* BulkRenameService.findOrphanedImages: the unreferenced images in the vault
\* (every image of this vault is unreferenced), all selected by default
findOrphanedImages == {i \in Images : imgState[i] # "trashed"}

NoOrphans == [open |-> FALSE, listed |-> {}, selected |-> {}, confirmOpen |-> FALSE]

PromptIdle ==
    /\ imgState = [i \in Images |-> "present"]
    /\ modal = [i \in Images |-> ClosedModal]
    /\ orphans = NoOrphans
    /\ confirmed = {}
    /\ promptOp = [kind |-> "none", img |-> 0]

DialogIdle == PromptIdle /\ BulkIdle /\ ExtraIdle

\* openDeleteModal(file, isOrphanPrompt): from the image context menu, or
\* from handleEditorChange for a removed link
OpenDeleteModal(i, isOrphanPrompt) ==
    /\ imgState[i] # "trashed"
    /\ ~modal[i].open
    /\ modal' = [modal EXCEPT ![i] = onOpen(isOrphanPrompt)]
    /\ promptOp' = [kind |-> "open", img |-> i]
    /\ UNCHANGED <<imgState, orphans, confirmed, capVars, trackVars, plugVars, bulkVars, extraVars>>

\* The user presses Delete: confirm(), and the callback calls trashFile
PromptConfirm(i) ==
    /\ modal[i].open
    /\ modal' = [modal EXCEPT ![i] = confirm(@)]
    /\ confirmed' = confirmed \cup {i}
    /\ imgState' = IF confirm(modal[i]).run THEN trashFile(imgState, i) ELSE imgState
    /\ promptOp' = [kind |-> "confirm", img |-> i]
    /\ UNCHANGED <<orphans, capVars, trackVars, plugVars, bulkVars, extraVars>>

\* The user presses Cancel, Escape or clicks outside: close()
PromptCancel(i) ==
    /\ modal[i].open
    /\ modal' = [modal EXCEPT ![i] = onClose(@)]
    /\ imgState' = IF onClose(modal[i]).run THEN trashFile(imgState, i) ELSE imgState
    /\ promptOp' = [kind |-> "cancel", img |-> i]
    /\ UNCHANGED <<orphans, confirmed, capVars, trackVars, plugVars, bulkVars, extraVars>>

\* The auto-dismiss timer of an orphan prompt fires: close()
PromptAutoDismiss(i) ==
    /\ modal[i].open
    /\ modal[i].timer
    /\ modal' = [modal EXCEPT ![i] = onClose(@)]
    /\ imgState' = IF onClose(modal[i]).run THEN trashFile(imgState, i) ELSE imgState
    /\ promptOp' = [kind |-> "dismiss", img |-> i]
    /\ UNCHANGED <<orphans, confirmed, capVars, trackVars, plugVars, bulkVars, extraVars>>

\* openOrphanedImagesModal: nothing opens when no orphan is found
OpenOrphans ==
    /\ ~orphans.open
    /\ findOrphanedImages # {}
    /\ orphans' = [open |-> TRUE, listed |-> findOrphanedImages,
                   selected |-> findOrphanedImages, confirmOpen |-> FALSE]
    /\ promptOp' = [kind |-> "orphans", img |-> 0]
    /\ UNCHANGED <<imgState, modal, confirmed, capVars, trackVars, plugVars, bulkVars, extraVars>>

\* A checkbox of the list is toggled
ToggleOrphan(i) ==
    /\ orphans.open
    /\ ~orphans.confirmOpen
    /\ i \in orphans.listed
    /\ orphans' = [orphans EXCEPT !.selected =
                     IF i \in @ THEN @ \ {i} ELSE @ \cup {i}]
    /\ promptOp' = [kind |-> "toggle", img |-> i]
    /\ UNCHANGED <<imgState, modal, confirmed, capVars, trackVars, plugVars, bulkVars, extraVars>>

\* "Delete selected": confirmDelete opens ConfirmDeleteModal, or only shows a
\* notice when nothing is selected
ClickDeleteSelected ==
    /\ orphans.open
    /\ ~orphans.confirmOpen
    /\ orphans' = [orphans EXCEPT !.confirmOpen = (orphans.selected # {})]
    /\ promptOp' = [kind |-> "askDelete", img |-> 0]
    /\ UNCHANGED <<imgState, modal, confirmed, capVars, trackVars, plugVars, bulkVars, extraVars>>

\* ConfirmDeleteModal's Delete button: close(), executeDelete, dialog closes
ConfirmDeletion(failing) ==
    /\ orphans.confirmOpen
    /\ \E r \in {deleteOrphanedImages([state |-> imgState, result |-> NoResult],
                                      orphans.selected, failing)} :
         /\ imgState' = r.state
         /\ promptOp' = [kind |-> "deleteAll", img |-> 0, selected |-> orphans.selected,
                         failing |-> failing, result |-> r.result]
    /\ confirmed' = confirmed \cup orphans.selected
    /\ orphans' = NoOrphans
    /\ UNCHANGED <<modal, capVars, trackVars, plugVars, bulkVars, extraVars>>

\* ConfirmDeleteModal's Cancel button: close()
CancelDeletion ==
    /\ orphans.confirmOpen
    /\ orphans' = [orphans EXCEPT !.confirmOpen = FALSE]
    /\ promptOp' = [kind |-> "cancelDelete", img |-> 0]
    /\ UNCHANGED <<imgState, modal, confirmed, capVars, trackVars, plugVars, bulkVars, extraVars>>

\* "Move selected": executeMove moves the selected images and closes the
\* dialog, or only shows a notice when nothing is selected; when the host
\* rejects the creation of the target folder, moveOrphanedImages throws
\* before its loop and the dialog stays open
ClickMoveSelected(failing, folderFails) ==
    /\ orphans.open
    /\ ~orphans.confirmOpen
    /\ IF orphans.selected = {} \/ folderFails
       THEN /\ UNCHANGED <<imgState, confirmed, orphans>>
            /\ promptOp' = [kind |-> "moveNothing", img |-> 0]
       ELSE /\ \E r \in {moveOrphanedImages([state |-> imgState, result |-> NoResult],
                                            orphans.selected, failing)} :
                 /\ imgState' = r.state
                 /\ promptOp' = [kind |-> "move", img |-> 0,
                                 selected |-> orphans.selected,
                                 failing |-> failing, result |-> r.result]
            /\ confirmed' = confirmed \cup orphans.selected
            /\ orphans' = NoOrphans
    /\ UNCHANGED <<modal, capVars, trackVars, plugVars, bulkVars, extraVars>>

\* The dialog's Cancel button: close()
CancelOrphans ==
    /\ orphans.open
    /\ ~orphans.confirmOpen
    /\ orphans' = NoOrphans
    /\ promptOp' = [kind |-> "cancelOrphans", img |-> 0]
    /\ UNCHANGED <<imgState, modal, confirmed, capVars, trackVars, plugVars, bulkVars, extraVars>>

----------------------------------------------------------------------------
(* Specifications *)

\* The plugin on a vault: pastes and drops, files created by other
\* programs, create events, timers
Init == CapIdle /\ TrackIdle /\ PlugInit /\ DialogIdle

Next ==
    \/ \E h \in Handlers : PasteStart(h)
    \/ \E f \in AttachmentFolders : IndexFolder(f)
    \/ \E h \in Handlers : PasteFolderReady(h)
    \/ \E h \in Handlers : PasteWrite(h)
    \/ \E h \in Handlers : PasteFinish(h)
    \/ \E h \in Handlers : ExpireProcessing(h)
    \/ \E name \in ExternalNames : ExternalCreate(name)
    \/ \E id \in Files : DeliverCreate(id)
    \/ \E id \in Files : ResumeCreate(id)
    \/ \E id \in Files : RenameDone(id)
    \/ GlobalDrop
    \/ ForceTimeout
    \/ Tick

Spec == Init /\ [][Next]_vars

\* The delete prompts and the orphaned-images dialog driven by the user
InitPrompt == CapIdle /\ TrackIdle /\ PlugIdle /\ DialogIdle

NextPrompt ==
    \/ \E i \in Images, isOrphanPrompt \in BOOLEAN : OpenDeleteModal(i, isOrphanPrompt)
    \/ \E i \in Images : PromptConfirm(i)
    \/ \E i \in Images : PromptCancel(i)
    \/ \E i \in Images : PromptAutoDismiss(i)
    \/ OpenOrphans
    \/ \E i \in Images : ToggleOrphan(i)
    \/ ClickDeleteSelected
    \/ \E failing \in SUBSET Images : ConfirmDeletion(failing)
    \/ CancelDeletion
    \/ \E failing \in SUBSET Images, folderFails \in BOOLEAN :
         ClickMoveSelected(failing, folderFails)
    \/ CancelOrphans

SpecPrompt == InitPrompt /\ [][NextPrompt]_vars

\* Notes opened, edited and closed in the running plugin
InitLifecycle == CapIdle /\ TrackIdle /\ PlugIdle /\ DialogIdle

NextLifecycle ==
    \/ \E n \in Notes : LeafChange(n)
    \/ \E n \in Notes : TypeLink(n)
    \/ \E n \in Notes : EraseLink(n)
    \/ \E n \in Notes : CloseNote(n)

SpecLifecycle == InitLifecycle /\ [][NextLifecycle]_vars

\* The bulk-rename dialog: images are scanned, previews generated, items
\* selected and the renames executed
InitBulk == CapIdle /\ TrackIdle /\ PlugIdle /\ DialogIdle

NextBulk ==
    \/ \E id \in BulkFileIds : ScanImage(id)
    \/ \E mode \in {"replace", "prepend"}, filter \in {"all", "generic"} :
         GeneratePreview(mode, filter, DefaultPattern)
    \/ \E filter \in {"all", "generic"}, pattern \in Patterns :
         GeneratePreview("pattern", filter, pattern)
    \/ \E k \in 1..MaxBatch : ToggleItem(k)
    \/ \E failing \in {{}} \cup {{plan[k].file} : k \in 1..Len(plan)} :
         executeRename(failing)
    \/ \E items \in DirectItems, failing \in {{}, {2}} :
         ExecuteBulkRename(items, failing)

SpecBulk == InitBulk /\ [][NextBulk]_vars

\* One session of a batch dialog: either the bulk-rename dialog (or a direct
\* executeBulkRename call) or the orphaned-images dialog, with the host
\* rejecting any of the file operations
InitBatch == CapIdle /\ TrackIdle /\ PlugIdle /\ DialogIdle

NextBatch ==
    \/ \E id \in BulkFileIds : PromptIdle /\ ScanImage(id)
    \/ \E mode \in {"replace", "prepend"} : GeneratePreview(mode, "all", DefaultPattern)
    \/ \E k \in 1..MaxBatch : ToggleItem(k)
    \/ \E failing \in SUBSET {plan[k].file : k \in 1..Len(plan)} : executeRename(failing)
    \/ \E items \in DirectItems, failing \in {{}, {2}} :
         PromptIdle /\ ExecuteBulkRename(items, failing)
    \/ BulkIdle /\ OpenOrphans
    \/ \E i \in Images : ToggleOrphan(i)
    \/ ClickDeleteSelected
    \/ \E failing \in SUBSET Images : ConfirmDeletion(failing)
    \/ CancelDeletion
    \/ \E failing \in SUBSET Images, folderFails \in BOOLEAN :
         ClickMoveSelected(failing, folderFails)
    \/ CancelOrphans

SpecBatch == InitBatch /\ [][NextBatch]_vars

\* Documents are edited and the vault is scanned for orphaned images
InitScan == CapIdle /\ TrackIdle /\ PlugIdle /\ DialogIdle

NextScan ==
    \/ \E d \in Docs, link \in ScanLinks : ToggleEmbed(d, link)
    \/ FindOrphanedImages

SpecScan == InitScan /\ [][NextScan]_vars

\* sanitizeFilename called with arbitrary names in both modes
InitSanitize == CapIdle /\ TrackIdle /\ PlugIdle /\ DialogIdle

NextSanitize ==
    \/ \E name \in Names : ChooseName(name)
    \/ \E aggressive \in BOOLEAN : SanitizeFilename(aggressive)

SpecSanitize == InitSanitize /\ [][NextSanitize]_vars

\* Note n.md is opened and edited, and captions are saved through the modal;
\* note m.md links a.png as well
InitEditor ==
    /\ CapIdle /\ PlugIdle /\ PromptIdle /\ BulkIdle /\ ScanIdle /\ EditIdle
    /\ deletePromptBehavior \in {"always", "orphan-only", "never"}
    /\ cache = [n \in Notes |-> NoCache]
    /\ noteLinks = [n \in Notes |-> IF n = "m.md" THEN <<NewLink(PathA, "wiki")>>
                                     ELSE <<>>]
    /\ synced = [n \in Notes |-> FALSE]
    /\ removed = {}
    /\ trackOp = NoTrackOp
    /\ opened = {}

NextEditor ==
    \/ LeafChange("n.md")
    \/ UserInsert("n.md", NewLink(PathA, "wiki"))
    \/ UserDelete("n.md")
    \/ \E k \in 1..Len(noteLinks["n.md"]), c \in TrackCaptions,
          button \in {"save", "remove"} : CaptionSave(k, c, button)
    \/ \E i \in 1..Len(onSaves) : ModifyWrite(i)
    \/ \E i \in 1..Len(onSaves) : ModifyResolved(i)
    \/ CaptionFlagTimeout
    \/ DebounceTimeout

SpecEditor == InitEditor /\ [][NextEditor]_vars

\* Note n.md is opened and links are typed and deleted; the debounce
\* timeout fires whenever it is pending
NextTyping ==
    \/ LeafChange("n.md")
    \/ \E l \in EditChoices : UserInsert("n.md", l)
    \/ UserDelete("n.md")
    \/ DebounceTimeout

SpecTyping == InitEditor /\ [][NextTyping]_vars /\ WF_vars(DebounceTimeout)

\* buildImageLink called with arbitrary arguments
InitBuild == CapIdle /\ TrackIdle /\ PlugIdle /\ DialogIdle

NextBuild ==
    \E path \in BuildPaths, caption \in BuildCaptions, size \in BuildSizes,
       type \in {"wiki", "markdown"} :
      BuildImageLink(path, caption, size, type)

SpecBuild == InitBuild /\ [][NextBuild]_vars

\* A document is typed, then setCaption / removeCaption are applied to it
InitCaption == CapIdle /\ TrackIdle /\ PlugIdle /\ DialogIdle

NextCaption ==
    \/ \E seg \in Segments : TypeSegment(seg)
    \/ \E target \in CaptionTargets, caption \in NewCaptions :
         SetCaption(target, caption)
    \/ \E target \in CaptionTargets : RemoveCaption(target)

SpecCaption == InitCaption /\ [][NextCaption]_vars

\* The tracker driven by the user's edits of two notes
InitTracker == CapIdle /\ TrackIdle /\ PlugIdle /\ DialogIdle

NextTracker ==
    \/ \E n \in Notes : UpdateCache(n)
    \/ \E n \in Notes : ClearCache(n)
    \/ \E n \in Notes : InsertLink(n)
    \/ \E n \in Notes : DeleteLink(n)
    \/ EditCaption

SpecTracker == InitTracker /\ [][NextTracker]_vars

----------------------------------------------------------------------------
(* Properties of the caption rewriter and the link builder *)

\* The link the last caption operation located in the text it was given
Located == findImageLink(before, capOp.target)

\* C7: setCaption and removeCaption alter nothing outside the located link's
\* [start, end) span: the output is the input's prefix text[0:start], then
\* the rewritten link, then the input's suffix text[end:]; when no link is
\* located the output is the input.
CaptionFramePreserved ==
    capOp.kind \in {"set", "remove"} =>
      IF ~Located.ok THEN content = before
      ELSE LET suffixLen == Len(before) - Located.end
               newLink   == buildImageLink(Located.filePath, capOp.caption,
                                           Located.size, Located.type)
           IN  /\ Len(content) = Located.start + Len(newLink) + suffixLen
               /\ Slice(content, 0, Located.start) = Slice(before, 0, Located.start)
               /\ Slice(content, Located.start, Located.start + Len(newLink)) = newLink
               /\ SliceFrom(content, Len(content) - suffixLen)
                    = SliceFrom(before, Located.end)

\* A caption was set on a link that has text before it and text after it
CaptionSetInsideText ==
    /\ capOp.kind = "set"
    /\ Located.ok
    /\ Located.start > 0
    /\ Located.end < Len(before)
    /\ content # before

\* The last built link parses back to a link with the arguments' path,
\* caption and size
RoundTrips ==
    LET links == parseImageLinks(built.link)
    IN  \E k \in 1..Len(links) :
          /\ links[k].filePath = built.filePath
          /\ links[k].caption = built.caption
          /\ links[k].size = built.size

HasNone(s, Chars) == \A i \in 1..Len(s) : s[i] \notin Chars
AllDigits(s) == \A i \in 1..Len(s) : IsDigit(s[i])

\* Arguments within the grammar of their syntax kind
WithinGrammar ==
    /\ EndsWithImageExt(built.filePath)
    /\ IF built.type = "wiki"
       THEN /\ HasNone(built.filePath, {"]", "|"})
            /\ HasNone(built.caption, {"]", "|"})
            /\ AllDigits(built.size)
       ELSE /\ HasNone(built.filePath, {")", " ", "\t", "\n"})
            /\ HasNone(built.caption, {"]"})
            /\ built.size = Null

\* C8 as stated: every built link parses back to the same path, caption
\* (empty read as absent) and size.
RoundTripAlways == built.ok => RoundTrips

\* C8: a link built from a path that ends in a recognised image extension
\* and arguments free of the delimiters of its syntax (embed: no ] or | in
\* path and caption, a size of digits; inline: no ) or white space in the
\* path, no ] in the caption, no size) parses back to a link with the same
\* path, caption (empty read as absent) and size.
RoundTripWithinGrammar == (built.ok /\ WithinGrammar) => RoundTrips

\* An embed link was built with a size and no caption, and it round-trips
BuiltSizeOnlyEmbed ==
    /\ built.ok
    /\ built.type = "wiki"
    /\ built.caption = Null
    /\ built.size = <<"5">>
    /\ WithinGrammar
    /\ RoundTrips

----------------------------------------------------------------------------
(* Properties of the link tracker *)

\* The text of the note the last tracker operation was applied to
TrackedText == Render(noteLinks[trackOp.note])

\* The target a link path names once percent-escapes are decoded
DecodedTarget(path) ==
    LET d == decodeURIComponent(path)
    IN  IF d.ok THEN d.value ELSE path

\* C3: a caption-only edit of a link to path P, applied to a note whose
\* cache entry was computed from the text before the edit, makes
\* detectRemovedLinks report no removal of P.
CaptionEditReportsNoRemoval ==
    ( /\ trackOp.kind = "detect"
      /\ trackOp.edit = "caption"
      /\ trackOp.synced
      /\ ~trackOp.threw )
    => /\ trackOp.path \notin removed
       /\ DecodedTarget(trackOp.path) \notin removed

\* C5: every detectRemovedLinks call returns exactly the cached paths that
\* are not among the paths extracted from the new text, and the empty list
\* when the note has no cache entry.
DetectReturnsCachedMinusNew ==
    trackOp.kind = "detect" =>
      /\ ~trackOp.threw
      /\ removed = IF trackOp.prev.has
                   THEN trackOp.prev.links \ extractImageLinks(TrackedText).links
                   ELSE {}

\* C6: after every detectRemovedLinks call the note's cache entry is the
\* set of paths extracted from the new text, with or without a prior entry
\* and with or without a reported removal.
DetectReplacesCache ==
    trackOp.kind = "detect" =>
      /\ extractImageLinks(TrackedText).ok
      /\ cache[trackOp.note] = Cached(extractImageLinks(TrackedText).links)

\* The same two properties for the calls that return
ReturnedDetectIsCachedMinusNew ==
    (trackOp.kind = "detect" /\ ~trackOp.threw) =>
      removed = IF trackOp.prev.has
                THEN trackOp.prev.links \ extractImageLinks(TrackedText).links
                ELSE {}

ReturnedDetectReplacesCache ==
    (trackOp.kind = "detect" /\ ~trackOp.threw) =>
      cache[trackOp.note] = Cached(extractImageLinks(TrackedText).links)

----------------------------------------------------------------------------
(* Properties of the handlers on the vault *)

\* The target paths of the operations whose awaited section is open: a
\* paste or drop that resolved its path and has not written, a create
\* handler whose rename has not finished
OpenTargets ==
    [h \in {x \in Handlers : ins[x].pc = "write"} |-> ins[h].availablePath]
OpenRenames ==
    [id \in {x \in Files : fc[x].pc = "renaming"} |-> fc[id].target]

\* C1: two insertions (paste, drop or rename on create) whose awaited
\* sections overlap resolve distinct target paths.
OverlappingTargetsDistinct ==
    /\ \A h1, h2 \in DOMAIN OpenTargets :
         h1 # h2 => OpenTargets[h1] # OpenTargets[h2]
    /\ \A id1, id2 \in DOMAIN OpenRenames :
         id1 # id2 => OpenRenames[id1] # OpenRenames[id2]
    /\ \A h \in DOMAIN OpenTargets, id \in DOMAIN OpenRenames :
         OpenTargets[h] # OpenRenames[id]

\* C2: handleFileCreate never acts on a file a paste or drop handler
\* created: it returns at its guards whenever the create event arrives.
PastedFileNeverAutoRenamed ==
    \A id \in Files :
      origin[id] = "paste" => fc[id].pc \in {"none", "returned"}

\* C4: the path getAvailablePath returns, under either suffix mode, is none
\* of the paths the vault held when it was called nor when it ran its
\* existence checks.
AvailablePathWasFree ==
    /\ \A h \in Handlers :
         ins[h].availablePath # NoPath =>
           ins[h].availablePath \notin (ins[h].atCall \cup ins[h].atProbe)
    /\ \A id \in Files :
         fc[id].newPath # NoPath => fc[id].newPath \notin fc[id].atProbe

\* A paste resolved its path while the first sequential candidate existed
ProbedPastTakenName ==
    \E h \in Handlers :
      /\ settings.suffixMode = "sequential"
      /\ ins[h].availablePath # NoPath
      /\ JoinPath(FolderPath, sanitizeFilename(settings.activeNote)
                                \o <<" ", "1", ".">> \o PngExtension)
           \in ins[h].atProbe

\* C9: a createFolder rejected with "Folder already exists." is tolerated:
\* no handler ends with that error.
FolderRaceTolerated ==
    \A h \in Handlers : ins[h].error # "Folder already exists."

\* C10: no write or rename ends with an "already exists" error shown to the
\* user: every collision is resolved by probing.
CollisionNeverSurfaced ==
    /\ \A h \in Handlers : ins[h].error # "File already exists."
    /\ \A id \in Files : fc[id].error # "Destination file already exists!"
    /\ "autoRenameExistsError" \notin notices

\* C11: when sanitizing the active note's name yields the empty string, no
\* paste or drop creates a file, no file is renamed, and the processing set
\* and the force flag are left as they were.
EmptyNameAbortsInsertion ==
    sanitizeFilename(settings.activeNote) = <<>> =>
      /\ \A id \in Files : origin[id] # "paste"
      /\ \A id \in Files : fc[id].pc # "renaming"
      /\ processingFiles = {}
      /\ ~forceRenameNext

ProcessingEntryHasRemover ==
    \A p \in processingFiles :
      \/ \E h \in expiryTimers : FileName(ins[h].availablePath) = p
      \/ \E id \in Files : fc[id].pc = "renaming" /\ filePath[id] = p

\* C14: no cache entry exists for a note that is closed.
ClosedNoteHasNoEntry ==
    \A n \in Notes : n \notin opened => ~cache[n].has

\* C15: no link-extraction call throws, whatever the text: updateCache and
\* detectRemovedLinks always return.
ExtractionNeverThrows == ~trackOp.threw

NamedDocNumber(name, doc) ==
    \E k \in 1..99 : name = doc \o <<" ">> \o NatToStr(k)

\* C17: after a planner run in replace mode, no image of the batch whose
\* base name is "{sanitized note name} {positive integer}" for its source
\* note has an item in the plan.
ReplaceModeSkipsNumbered ==
    (planOp.input # <<>> /\ planOp.input[3] = "replace") =>
      \A j \in 1..Len(planOp.input[1]) :
        (/\ planOp.input[1][j].sourceNote # NoNote
         /\ NamedDocNumber(planOp.input[2][planOp.input[1][j].file].basename,
                           sanitizeFilename(planOp.input[1][j].sourceNote)))
        => \A k \in 1..Len(produced) : produced[k].file # planOp.input[1][j].file

\* A replace-mode run over "N 2.png" and one more image of note N left
\* "N 2.png" out and proposed "N 1" for the other image
NumberedImageLeftOut ==
    /\ planOp.input # <<>>
    /\ planOp.input[3] = "replace"
    /\ Len(scanned) = 2
    /\ \E j \in 1..2 : bulkFiles[scanned[j].file].basename = <<"N", " ", "2">>
    /\ Len(produced) = 1
    /\ produced[1].currentName # <<"N", " ", "2">>
    /\ produced[1].newName = <<"N", " ", "1">>

\* C18: every item of a plan, in any mode and for any filter, proposes a new
\* name that is not the image's current base name.
PlanItemsChangeName ==
    \A k \in 1..Len(produced) :
      /\ produced[k].newName # produced[k].currentName
      /\ planOp.input # <<>>
           => produced[k].newName # planOp.input[2][produced[k].file].basename

\* A run with the pattern "{original}" over a batch that has a note-embedded
\* image dropped every item: each proposed name was the current one
UnchangedNameDropped ==
    /\ planOp.input # <<>>
    /\ planOp.input[3] = "pattern"
    /\ planOp.input[5] = OriginalToken
    /\ \E j \in 1..Len(filterImages(scanned, planOp.input[4])) :
         filterImages(scanned, planOp.input[4])[j].sourceNote # NoNote
    /\ produced = <<>>

\* C19: the new names proposed by one plan are pairwise distinct when
\* compared case-insensitively.
PlanNamesDistinct ==
    \A j, k \in 1..Len(produced) :
      j # k => toLowerCase(produced[j].newName) # toLowerCase(produced[k].newName)

\* The files of the items an executeBulkRename call has to attempt: the
\* selected ones whose new name is not the current one
DueFiles(items) ==
    {items[k].file : k \in {j \in 1..Len(items) :
                              items[j].selected /\ items[j].currentName # items[j].newName}}

\* C20: executeBulkRename attempts a rename only for selected items; an item
\* whose new name is its current name is not attempted and is counted
\* neither as success nor as failure; every attempted rename is counted
\* once; only attempted files change their name.
ExecutesOnlySelectedChanged ==
    execOp.done =>
      /\ execOp.result.attempted = DueFiles(execOp.items)
      /\ execOp.result.success + execOp.result.failed
           = Cardinality({k \in 1..Len(execOp.items) :
                            /\ execOp.items[k].selected
                            /\ execOp.items[k].currentName # execOp.items[k].newName})
      /\ \A id \in BulkFileIds :
           id \notin DueFiles(execOp.items) => bulkFiles[id] = execOp.before[id]

\* An execution over a selected unchanged item, an unselected item and a
\* selected changed item renamed the last one only and counted one success
SkippedUnselectedAndUnchanged ==
    /\ execOp.done
    /\ \E k \in 1..Len(execOp.items) :
         execOp.items[k].selected /\ execOp.items[k].currentName = execOp.items[k].newName
    /\ \E k \in 1..Len(execOp.items) :
         ~execOp.items[k].selected /\ execOp.items[k].currentName # execOp.items[k].newName
    /\ execOp.result.success = 1
    /\ execOp.result.failed = 0
    /\ Cardinality({id \in BulkFileIds : bulkFiles[id] # execOp.before[id]}) = 1

\* C21: a batch operation attempts every selected item whatever the host
\* rejects: executeBulkRename attempts every selected item whose name
\* changes, counts the rejected ones as failed and the others as success;
\* deleteOrphanedImages and moveOrphanedImages attempt every selected image,
\* count each once, and every image the host does not reject is trashed or
\* moved.
BatchContinuesPastFailure ==
    /\ execOp.done =>
         /\ execOp.result.attempted = DueFiles(execOp.items)
         /\ execOp.result.failed
              = Cardinality(DueFiles(execOp.items) \cap execOp.failing)
         /\ execOp.result.success
              = Cardinality(DueFiles(execOp.items) \ execOp.failing)
         /\ \A id \in DueFiles(execOp.items) \ execOp.failing :
              bulkFiles[id] # execOp.before[id]
    /\ promptOp.kind \in {"deleteAll", "move"} =>
         /\ promptOp.result.attempted = promptOp.selected
         /\ promptOp.result.success + promptOp.result.failed
              = Cardinality(promptOp.selected)
         /\ promptOp.result.failed >= Cardinality(promptOp.selected \cap promptOp.failing)
         /\ \A i \in promptOp.selected \ promptOp.failing :
              imgState[i] = (IF promptOp.kind = "move" THEN "moved" ELSE "trashed")

\* The host rejected the move of the first of two selected orphans, and the
\* second one was moved all the same
MovedPastRejectedImage ==
    /\ promptOp.kind = "move"
    /\ promptOp.selected = {1, 2}
    /\ promptOp.failing = {1}
    /\ promptOp.result.failed = 1
    /\ promptOp.result.success = 1
    /\ imgState[1] = "present"
    /\ imgState[2] = "moved"

\* C22: after a scan, an image that a note, a canvas or an Excalidraw
\* drawing embeds is not in the list of orphans.
EmbeddedImageNotOrphaned ==
    scanOp.done =>
      \A image \in 1..Len(ScanImages) :
        (\E d \in {1, 2, 3} : image \in docEmbeds[d]) => image \notin scanOp.orphaned

\* A scan found the image that only the canvas embeds referenced, and
\* listed the other image, which only the text file embeds, as orphaned
CanvasEmbedCounted ==
    /\ scanOp.done
    /\ docEmbeds = [d \in Docs |-> IF d = 2 THEN {1} ELSE IF d = 4 THEN {2} ELSE {}]
    /\ scanOp.orphaned = {2}

\* path is "{baseName} {n}.{extension}" in folder for the smallest n >= 1
\* whose path is not among probe
IsSmallestFree(path, probe, folder, baseName, extension) ==
    \E n \in 1..(Cardinality(Files) + 1) :
      /\ path = JoinPath(folder, baseName \o <<" ">> \o NatToStr(n) \o <<".">> \o extension)
      /\ path \notin probe
      /\ \A m \in 1..(n - 1) :
           JoinPath(folder, baseName \o <<" ">> \o NatToStr(m) \o <<".">> \o extension)
             \in probe

\* C23: in sequential mode every path getAvailablePath returned, to a paste
\* and to handleFileCreate, is "{baseName} {n}.{ext}" for the smallest n >= 1
\* whose path the vault did not hold when it was probed.
SequentialPicksSmallestFree ==
    settings.suffixMode = "sequential" =>
      /\ \A h \in Handlers :
           ins[h].availablePath # NoPath =>
             IsSmallestFree(ins[h].availablePath, ins[h].atProbe, FolderPath,
                            sanitizeFilename(settings.activeNote), PngExtension)
      /\ \A id \in Files :
           fc[id].newPath # NoPath =>
             IsSmallestFree(fc[id].newPath, fc[id].atProbe, ParentPath(fc[id].target),
                            sanitizeFilename(removeNoteSuffixes(settings.activeNote,
                                                                suffixesToRemove)),
                            FileExtension(fc[id].target))

\* With "N 1.png" and "N 2.png" in the vault the resolver returned "N 3.png"
ThirdSlotReturned ==
    /\ settings.suffixMode = "sequential"
    /\ \E id \in Files :
         /\ fc[id].newPath = <<"N", " ", "3", ".", "p", "n", "g">>
         /\ {<<"N", " ", "1", ".", "p", "n", "g">>, <<"N", " ", "2", ".", "p", "n", "g">>}
              \subseteq fc[id].atProbe

\* C24: within a paste or drop handler the link of an image is inserted only
\* after the write of that image has succeeded: a link is inserted only by a
\* handler whose createBinary has returned, that return created the file at
\* the handler's path, and a handler whose write failed inserts no link.
LinkOnlyAfterWrite ==
    /\ [](\A k \in 1..Len(insertedLinks) : ins[insertedLinks[k].handler].error = "none")
    /\ [][insertedLinks' # insertedLinks =>
            \E h \in Handlers :
              /\ ins[h].pc = "written"
              /\ insertedLinks' = Append(insertedLinks,
                     [handler |-> h,
                      link |-> <<"!", "[", "[">> \o LastSegment(ins[h].availablePath)
                                 \o <<"]", "]">>])]_vars
    /\ [][\A h \in Handlers :
            (ins'[h].pc = "written" /\ ins[h].pc # "written") =>
              \E id \in Files :
                /\ origin[id] = "none"
                /\ origin'[id] = "paste"
                /\ filePath'[id] = ins[h].availablePath]_vars

\* One handler wrote its image and inserted the link; the write of another
\* handler was rejected and it inserted nothing
FailedWriteInsertedNothing ==
    /\ Len(insertedLinks) = 1
    /\ \E h \in Handlers :
         /\ ins[h].pc = "done"
         /\ ins[h].error = "File already exists."
         /\ insertedLinks[1].handler # h

\* C25: for the document's text and every target, removing the caption a
\* second time changes nothing: removeCaption(removeCaption(t, target),
\* target) = removeCaption(t, target).
RemoveCaptionIdempotent ==
    \A target \in CaptionTargets :
      removeCaption(removeCaption(content, target), target) = removeCaption(content, target)

\* The links of text, in parseImageLinks' grammar, whose path is target
ExactLinks(text, target) ==
    {k \in 1..Len(parseImageLinks(text)) :
       normalizePath(parseImageLinks(text)[k].filePath) = normalizePath(target)}

\* C26: whenever the text holds a link that matches the target exactly,
\* findImageLink returns the first such link, wherever links that match
\* only by base name stand; and a caption operation on a text with an exact
\* match leaves everything before that link as it was.
ExactMatchWins ==
    /\ \A target \in CaptionTargets :
         ExactLinks(content, target) # {} =>
           findImageLink(content, target)
             = parseImageLinks(content)[Min(ExactLinks(content, target))]
    /\ (capOp.kind \in {"set", "remove"} /\ ExactLinks(before, capOp.target) # {}) =>
         Slice(content, 0,
               parseImageLinks(before)[Min(ExactLinks(before, capOp.target))].start)
           = Slice(before, 0,
                   parseImageLinks(before)[Min(ExactLinks(before, capOp.target))].start)

\* The caption of "a.png" was removed from a text in which an embed of "a"
\* without extension stands before the embed of "a.png": the first embed
\* kept its caption
ExactLinkEditedBehindFallback ==
    /\ capOp.kind = "remove"
    /\ capOp.target = <<"a", ".", "p", "n", "g">>
    /\ before = <<"!", "[", "[", "a", "|", "c", "]", "]",
                  "!", "[", "[", "a", ".", "p", "n", "g", "|", "c", "|", "5", "]", "]">>
    /\ content = <<"!", "[", "[", "a", "|", "c", "]", "]",
                   "!", "[", "[", "a", ".", "p", "n", "g", "|", "|", "5", "]", "]">>

\* C27 (as stated): sanitizeFilename of the scenario's name returns
\* "cafe_citta" in aggressive mode and the name itself otherwise.
ScenarioOneAsStated ==
    (sanOut.done /\ sanIn = ScenarioName) =>
      sanOut.value = (IF sanOut.aggressive
                      THEN <<"c", "a", "f", "e", "_", "c", "i", "t", "t", "a">>
                      ELSE ScenarioName)

\* C27 (amended): sanitizeFilename of the scenario's name returns
\* "caffe_citta" in aggressive mode and the name itself otherwise.
ScenarioOneBothLetters ==
    (sanOut.done /\ sanIn = ScenarioName) =>
      sanOut.value = (IF sanOut.aggressive
                      THEN <<"c", "a", "f", "f", "e", "_", "c", "i", "t", "t", "a">>
                      ELSE ScenarioName)

\* The scenario's name was sanitized in aggressive mode
ScenarioNameSanitized ==
    /\ sanIn = ScenarioName
    /\ sanOut.done
    /\ sanOut.aggressive
    /\ Len(sanOut.value) = 11

----------------------------------------------------------------------------
(* Properties of the caption modal and the debounced editor-change handler *)

\* Note n.md has a link whose path is p
Linked(n, p) == \E k \in 1..Len(noteLinks[n]) : noteLinks[n][k].filePath = p

\* The images whose caption the modal wrote: the image of the write the last
\* editor-change event came from, and the images n.md links with a caption
CaptionedImages ==
    (IF trackOp.edit = "caption" THEN {trackOp.path} ELSE {})
      \cup {noteLinks["n.md"][k].filePath :
               k \in {j \in 1..Len(noteLinks["n.md"]) :
                        noteLinks["n.md"][j].caption # Null}}

\* C28: no run of the editor-change handler, before or after the 100 ms reset
\* of the caption-editing flag, reports as removed an image whose caption the
\* modal saved or removed and which the note still links, and none opens a
\* delete prompt for it.
CaptionSaveReportsNoRemoval ==
    (trackOp.kind = "detect" /\ ~trackOp.threw) =>
      \A p \in CaptionedImages :
        Linked("n.md", p) => (p \notin removed /\ p \notin deletePrompts)

\* No link of note n names p once percent-escapes are decoded
AbsentFromText(n, p) ==
    \A k \in 1..Len(noteLinks[n]) : DecodedTarget(noteLinks[n][k].filePath) # p

\* C30: with the delete-prompt behaviour other than 'never', a link that is
\* in the snapshot of n.md and absent from its text after an edit is
\* eventually returned as removed by a run of the handler.
RemovedLinkEventuallyReported ==
    \A p \in VaultImages :
      ( /\ deletePromptBehavior # "never"
        /\ trackOp.note = "n.md"
        /\ trackOp.edit \in {"insert", "delete"}
        /\ cache["n.md"].has
        /\ p \in cache["n.md"].links
        /\ AbsentFromText("n.md", p) )
      ~> (trackOp.kind = "detect" /\ p \in removed)

\* C29: the force-rename flag set by a drop on a drawing goes back to false
\* only when a create event passes the handler's checks and consumes it, or
\* when the 5000 ms timer of the drop that set it fires.  Timers of equal
\* delay fire in the order they were set and every drop on a drawing sets
\* the flag, so the timer of the drop that set the flag is the one that
\* fires only when it is the single pending timer.
ForceFlagHeldUntilOwnTimeout ==
    [][ (forceRenameNext /\ ~forceRenameNext') =>
          \/ \E id \in Files : fc[id].pc # "wait100" /\ fc'[id].pc = "wait100"
          \/ (forceTimers = 1 /\ forceTimers' = 0) ]_vars

====
